---- MODULE Spec2Model ----
(***************************************************************************)
(* Verification model of two components of the repository:                 *)
(*   - parallel_allocator: the block list heap of mem_block.c, the VM      *)
(*     reservation layer of vmalloc.c and the myalloc / myfree facade;     *)
(*   - gpt2_parallel_inference: the bounded task queue and the thread      *)
(*     pool.                                                               *)
(* SpecHeap drives the allocator, SpecPool drives the pool.                *)
(***************************************************************************)
EXTENDS Integers, Sequences, FiniteSets, TLC

VARIABLES
    mem,        \* block records (mem_block_t) by cell; a freed cell keeps what the C heap leaves in it
    g_heap,     \* heap_t: blocks_head, block_count, total_allocated, total_free, peak_allocated, alloc_strategy
    g_vm_mgr,   \* vm_manager_t: regions (list, newest first), region_count, total_allocated
    lock,       \* owner of heap->lock (NoThread when free)
    hpc,        \* position of each allocator caller
    harg,       \* the caller's local aligned_size (heap_allocate) or addr (heap_free)
    hblk,       \* the caller's local 'block' pointer
    hret,       \* the call that returned in the step just taken, its value, and for a
                \* refused myfree the address it was given (NoRet: none did)
    g_initialized, \* the facade's flag: allocator_init built the VM manager and the heap
    allocs,     \* history: allocations handed out and not yet released
    pair,       \* history: the run of directly repeated myalloc(s)/myfree(p) pairs
    pool,       \* thread_pool_t: state, shutdown, should_exit of each worker, num_threads; alive until freed
                \* dangling: the workers whose info pointer is into a thread_infos
                \* array that a realloc moved and freed
    queue,      \* task_queue_t: the linked list (items), count, max_count, active_tasks, stats
    tasks,      \* Task records by id, with the history of each (function runs, cleanup calls)
    ntasks,     \* number of Task records allocated so far
    accepted,   \* history: tasks whose submit returned 0
    ppc,        \* position of each producer
    ptask,      \* the producer's local 'task' pointer
    wpc,        \* position of each worker
    wtask,      \* the worker's local 'task' pointer
    mpc,        \* position of the controlling thread (create, wait_all, resize, destroy)
    wsnap,      \* history: the tasks accepted when the controller made its call
                \* (wait_all, destroy)
    qmutex,     \* the thread that holds queue->mutex between two steps (it decided to wait)
    state_lock, \* the thread that holds pool->state_lock between two steps
    pheld,      \* history: the pool mutexes the thread of the step just taken held
                \* together, if it held more than one at a time
    pev         \* history: the signal issued and the call that returned in the step just taken

hvars == <<mem, g_heap, g_vm_mgr, lock, hpc, harg, hblk, hret, g_initialized, allocs, pair>>
pvars == <<pool, queue, tasks, ntasks, accepted, ppc, ptask, wpc, wtask, mpc, wsnap, qmutex,
          state_lock, pheld, pev>>
vars == <<hvars, pvars>>

-----------------------------------------------------------------------------
(* Program constants                                                       *)

PAGE_SIZE == 4096
ALIGN_SIZE_int == 2 + 2     \* sizeof(int) taken for the alignment
ALIGN_SIZE == 8
POOL_INIT_SIZE == PAGE_SIZE * 10
NULL == 0
\* error_code_t
ERR_INVALID_ADDR == -1
ERR_DOUBLE_FREE == -5

(* Bounds of the model                                                     *)

MaxBlocks == 4      \* cells available to malloc(sizeof(mem_block_t))
NumPages == 12      \* pages of address space the OS may hand out (pages 1..NumPages)
MaxRepeat == 2      \* alloc/free pairs counted in a run (the count saturates)
MaxTasks == 3       \* Task records the producers create in a run
QueueSize == 1      \* largest max_count a queue is created with

HThreads == {"h1", "h2"}
NoThread == "none"
Producers == {"p1", "p2"}
Workers == {"w1", "w2"}
TaskIds == 1 .. MaxTasks
Cells == 1 .. MaxBlocks
Sizes == {1, PAGE_SIZE, POOL_INIT_SIZE}     \* request sizes tried by the callers
PageSizes == {PAGE_SIZE, POOL_INIT_SIZE}     \* the request sizes that are whole pages
BadAddr == PAGE_SIZE * (NumPages + 2) + 4   \* an address inside no reservation

ALIGN_UP(x, a) == LET y == x + a - 1 IN y - (y % a)
IS_ALIGNED(x, a) == (x % a) = 0

Min(S) == CHOOSE x \in S : \A y \in S : x <= y

-----------------------------------------------------------------------------
(* Block records                                                           *)

ZeroCell == [start_addr |-> 0, size |-> 0, state |-> "FREE", prev |-> NULL, next |-> NULL, live |-> FALSE]

\* pointers the program still holds to cell c: the list head, the links of
\* live records, the callers' local block pointers (blk)
Referenced(m, head, blk, c) ==
    \/ head = c
    \/ \E d \in Cells : m[d].live /\ (m[d].next = c \/ m[d].prev = c)
    \/ \E t \in DOMAIN blk : blk[t] = c

\* what the C heap may leave in a freed record: the old contents, or an
\* overwritten start_addr/size (free-list link and key) below or above every
\* block address; prev/next of a freed record are never read
FreedKinds == {"stale", "low", "high"}
FreedCell(rec, kind) ==
    IF kind = "stale" THEN [rec EXCEPT !.live = FALSE, !.prev = NULL, !.next = NULL]
    ELSE IF kind = "low" THEN [rec EXCEPT !.live = FALSE, !.prev = NULL, !.next = NULL,
                                         !.start_addr = 1, !.size = 0]
    ELSE [rec EXCEPT !.live = FALSE, !.prev = NULL, !.next = NULL,
                     !.start_addr = PAGE_SIZE * (NumPages + 4), !.size = 0]

\* the contents of unreferenced freed records cannot be observed
Normalize(m, head, blk) ==
    [c \in Cells |-> IF ~m[c].live /\ ~Referenced(m, head, blk, c) THEN ZeroCell ELSE m[c]]

\* cells malloc may return: a freed record something still points to, or a fresh one
MallocChoices(m, head, blk) ==
    LET free == {c \in Cells : ~m[c].live}
        dang == {c \in free : Referenced(m, head, blk, c)}
        fresh == free \ dang
    IN dang \cup (IF fresh = {} THEN {} ELSE {Min(fresh)})

mem_block_create(m, c, start_addr, size, state) ==
    IF size = 0 \/ ~IS_ALIGNED(start_addr, ALIGN_SIZE) \/ c = NULL
    THEN [ok |-> FALSE, mem |-> m]
    ELSE [ok |-> TRUE,
          mem |-> [m EXCEPT ![c] = [start_addr |-> start_addr, size |-> size, state |-> state,
                                    prev |-> NULL, next |-> NULL, live |-> TRUE]]]

\* free(block): the record is dead; what the cell holds afterwards is FreedCell
mem_block_destory(m, c) == [m EXCEPT ![c] = FreedCell(m[c], "stale")]

mem_block_is_adjacent(m, b1, b2) ==
    IF b1 = NULL \/ b2 = NULL THEN FALSE
    ELSE m[b1].start_addr + m[b1].size = m[b2].start_addr

mem_block_contains(m, b, addr) ==
    IF b = NULL THEN FALSE
    ELSE addr >= m[b].start_addr /\ addr < m[b].start_addr + m[b].size

mem_block_can_satisfy(m, b, size) ==
    IF b = NULL THEN FALSE
    ELSE m[b].state = "FREE" /\ m[b].size >= size

\* mem_block_split that leaves the block whole
mem_block_split_whole(m, block, size, c) == [ok |-> TRUE, mem |-> m]

\* c is the cell malloc returns for the new record (NULL: malloc fails)
mem_block_split(m, block, size, c) ==
    IF block = NULL \/ m[block].state # "FREE" THEN [ok |-> FALSE, mem |-> m]
    ELSE IF size = 0 \/ size >= m[block].size \/ ~IS_ALIGNED(size, ALIGN_SIZE)
    THEN [ok |-> FALSE, mem |-> m]
    ELSE LET new_block_size == m[block].size - size
             new_block_addr == m[block].start_addr + size
             cr == mem_block_create(m, c, new_block_addr, new_block_size, "FREE")
         IN IF ~cr.ok THEN [ok |-> FALSE, mem |-> m]
            ELSE LET nx == m[block].next
                     m1 == [cr.mem EXCEPT ![c].next = nx, ![c].prev = block]
                     m2 == IF nx # NULL THEN [m1 EXCEPT ![nx].prev = c] ELSE m1
                     m3 == [m2 EXCEPT ![block].next = c, ![block].size = size]
                 IN [ok |-> TRUE, mem |-> m3]

mem_block_merge(m, block1, block2) ==
    IF block1 = NULL \/ block2 = NULL THEN [ok |-> FALSE, mem |-> m]
    ELSE IF m[block1].state # "FREE" \/ m[block2].state # "FREE" THEN [ok |-> FALSE, mem |-> m]
    ELSE IF ~mem_block_is_adjacent(m, block1, block2) THEN [ok |-> FALSE, mem |-> m]
    ELSE LET nx == m[block2].next
             m1 == [m EXCEPT ![block1].size = m[block1].size + m[block2].size,
                             ![block1].next = nx]
             m2 == IF nx # NULL THEN [m1 EXCEPT ![nx].prev = block1] ELSE m1
         IN [ok |-> TRUE, mem |-> mem_block_destory(m2, block2)]

mem_block_verify(m, b) ==
    IF b = NULL THEN -1
    ELSE IF ~IS_ALIGNED(m[b].start_addr, ALIGN_SIZE) THEN -1
    ELSE IF m[b].size = 0 THEN -1
    ELSE IF m[b].state \notin {"FREE", "ALLOCATED"} THEN -1
    ELSE 0

-----------------------------------------------------------------------------
(* The block list                                                          *)

RECURSIVE ChainFrom(_, _, _)
ChainFrom(m, c, fuel) ==
    IF c = NULL \/ fuel = 0 THEN <<>>
    ELSE <<c>> \o ChainFrom(m, m[c].next, fuel - 1)

\* the cells reached from blocks_head along next
Chain(m, head) == ChainFrom(m, head, MaxBlocks + 1)

Range(s) == {s[i] : i \in DOMAIN s}

RECURSIVE SetToSeq(_)
SetToSeq(S) == IF S = {} THEN <<>> ELSE LET x == Min(S) IN <<x>> \o SetToSeq(S \ {x})

\* Which cell a record lives in is the address malloc gave it and nothing
\* depends on it: the records are renumbered in list order after every step
\* (then the other records still pointed to, then the free cells).
Canon(m, head, blk) ==
    LET ch == Chain(m, head)
        rest == {c \in Cells \ Range(ch) : m[c].live \/ Referenced(m, head, blk, c)}
        others == Cells \ (Range(ch) \cup rest)
        ord == ch \o SetToSeq(rest) \o SetToSeq(others)
    IN IF Len(ord) # MaxBlocks
       THEN [mem |-> m, ren |-> [c \in 0 .. MaxBlocks |-> c]]
       ELSE LET ren == [c \in 0 .. MaxBlocks |->
                           IF c = NULL THEN NULL ELSE CHOOSE i \in Cells : ord[i] = c]
            IN [mem |-> [i \in Cells |-> [m[ord[i]] EXCEPT !.prev = ren[@], !.next = ren[@]]],
                ren |-> ren]

_heap_try_merge_adjacent(m, block) ==
    IF block = NULL \/ m[block].state # "FREE" THEN [count |-> 0, mem |-> m]
    ELSE LET nx == m[block].next
             r1 == IF nx # NULL /\ m[nx].state = "FREE"
                   THEN mem_block_merge(m, block, nx)
                   ELSE [ok |-> FALSE, mem |-> m]
             c1 == IF r1.ok THEN 1 ELSE 0
             pv == r1.mem[block].prev
             r2 == IF pv # NULL /\ r1.mem[pv].state = "FREE"
                   THEN mem_block_merge(r1.mem, pv, block)
                   ELSE [ok |-> FALSE, mem |-> r1.mem]
             c2 == IF r2.ok THEN 1 ELSE 0
         IN [count |-> c1 + c2, mem |-> r2.mem]

\* the first block along next that contains addr, NULL when none does
heap_find_block(m, head, addr) ==
    IF addr = NULL THEN NULL
    ELSE LET ch == Chain(m, head)
             idx == {i \in DOMAIN ch : mem_block_contains(m, ch[i], addr)}
         IN IF idx = {} THEN NULL ELSE ch[Min(idx)]

\* heap_find_free_block whose scans replace the selected block also on equal size
heap_find_free_block_last(m, h, size) ==
    IF size = 0 THEN NULL
    ELSE LET ch == Chain(m, h.blocks_head)
             fit == {i \in DOMAIN ch : mem_block_can_satisfy(m, ch[i], size)}
         IN IF fit = {} THEN NULL
            ELSE IF h.alloc_strategy = "FIRST_FIT" THEN ch[Min(fit)]
            ELSE IF h.alloc_strategy = "BEST_FIT"
                 THEN LET S == {i \in fit : \A j \in fit : m[ch[i]].size <= m[ch[j]].size}
                      IN ch[CHOOSE i \in S : \A j \in S : i >= j]
            ELSE IF h.alloc_strategy = "WORST_FIT"
                 THEN LET S == {i \in fit : \A j \in fit : m[ch[i]].size >= m[ch[j]].size}
                      IN ch[CHOOSE i \in S : \A j \in S : i >= j]
            ELSE NULL

heap_find_free_block(m, h, size) ==
    IF size = 0 THEN NULL
    ELSE LET ch == Chain(m, h.blocks_head)
             fit == {i \in DOMAIN ch : mem_block_can_satisfy(m, ch[i], size)}
         IN IF fit = {} THEN NULL
            ELSE IF h.alloc_strategy = "FIRST_FIT" THEN ch[Min(fit)]
            ELSE IF h.alloc_strategy = "BEST_FIT"
                 THEN ch[Min({i \in fit : \A j \in fit :
                                 /\ m[ch[i]].size <= m[ch[j]].size
                                 /\ (m[ch[j]].size = m[ch[i]].size => i <= j)})]
            ELSE IF h.alloc_strategy = "WORST_FIT"
                 THEN ch[Min({i \in fit : \A j \in fit :
                                 /\ m[ch[i]].size >= m[ch[j]].size
                                 /\ (m[ch[j]].size = m[ch[i]].size => i <= j)})]
            ELSE NULL

\* heap_verify as the code computes it, block by block along next
heap_verify(m, h) ==
    LET ch == Chain(m, h.blocks_head)
        bad(b) ==
            \/ mem_block_verify(m, b) # 0
            \/ (m[b].prev # NULL /\ m[m[b].prev].start_addr >= m[b].start_addr)
            \/ (m[b].state = "FREE" /\ m[b].next # NULL /\ m[m[b].next].state = "FREE"
                /\ mem_block_is_adjacent(m, b, m[b].next))
        RECURSIVE Sum(_, _)
        Sum(s, st) == IF s = <<>> THEN 0
                      ELSE (IF m[Head(s)].state = st THEN m[Head(s)].size ELSE 0) + Sum(Tail(s), st)
        counted_free == Sum(ch, "FREE")
        counted_allocated == Sum(ch, "ALLOCATED")
    IN IF \E i \in DOMAIN ch : bad(ch[i]) THEN -1
       ELSE IF Len(ch) # h.block_count THEN -1
       ELSE IF counted_allocated # h.total_allocated \/ counted_free # h.total_free THEN -1
       ELSE 0

-----------------------------------------------------------------------------
(* The VM reservation layer                                                *)

RECURSIVE SumLen(_)
SumLen(rs) == IF rs = <<>> THEN 0 ELSE Head(rs).length + SumLen(Tail(rs))

Pages(start_addr, length) ==
    (start_addr \div PAGE_SIZE) .. ((start_addr + length) \div PAGE_SIZE - 1)

\* the page-aligned ranges mmap(NULL, length) may return: any range of the
\* address window that overlaps no existing mapping
Placements(vm, length) ==
    LET n == length \div PAGE_SIZE
        mapped == UNION {Pages(vm.regions[i].start_addr, vm.regions[i].length) :
                         i \in DOMAIN vm.regions}
    IN {p * PAGE_SIZE : p \in {q \in 1 .. NumPages :
                                  /\ q + n - 1 <= NumPages
                                  /\ (q .. (q + n - 1)) \cap mapped = {}}}

_vmalloc_is_page_aligned(size) == (size % PAGE_SIZE) = 0

\* vmalloc that records the region without adding its length to total_allocated
vmalloc_uncounted(vm, ptr, length) ==
    IF length = 0 \/ ~_vmalloc_is_page_aligned(length) \/ ptr = NULL
    THEN [ptr |-> NULL, vm |-> vm]
    ELSE [ptr |-> ptr,
          vm |-> [regions |-> <<[start_addr |-> ptr, length |-> length]>> \o vm.regions,
                  total_allocated |-> vm.total_allocated,
                  region_count |-> vm.region_count + 1]]

\* ptr is what mmap returned (NULL: MAP_FAILED, or no memory for the region record)
vmalloc(vm, ptr, length) ==
    IF length = 0 \/ ~_vmalloc_is_page_aligned(length) \/ ptr = NULL
    THEN [ptr |-> NULL, vm |-> vm]
    ELSE [ptr |-> ptr,
          vm |-> [regions |-> <<[start_addr |-> ptr, length |-> length]>> \o vm.regions,
                  total_allocated |-> vm.total_allocated + length,
                  region_count |-> vm.region_count + 1]]

\* vmfree that releases nothing
vmfree_none(vm, addr, length) == vm

vmfree(vm, addr, length) ==
    LET idx == {i \in DOMAIN vm.regions : vm.regions[i].start_addr = addr}
    IN IF idx = {} THEN vm
       ELSE LET i == Min(idx)
            IN IF vm.regions[i].length # length THEN vm
               ELSE [regions |-> SubSeq(vm.regions, 1, i - 1)
                                 \o SubSeq(vm.regions, i + 1, Len(vm.regions)),
                     total_allocated |-> vm.total_allocated - length,
                     region_count |-> vm.region_count - 1]

-----------------------------------------------------------------------------
(* The heap: heap_init, heap_allocate, heap_free                           *)

\* heap_init(POOL_INIT_SIZE, true) as allocator_init calls it; vm_ptr is the
\* address the first reservation got, the initial block takes cell 1
heap_init_mem(vm_ptr) ==
    mem_block_create([c \in Cells |-> ZeroCell], 1, vm_ptr, POOL_INIT_SIZE, "FREE").mem

heap_init(vm_ptr) ==
    [blocks_head |-> 1, block_count |-> 1, total_allocated |-> 0,
     total_free |-> POOL_INIT_SIZE, peak_allocated |-> 0,
     lock_enabled |-> TRUE, alloc_strategy |-> "FIRST_FIT"]

\* _heap_lock that never takes the mutex
_heap_lock_none(t) == [can |-> TRUE, owner |-> lock]

\* pthread_mutex_lock(&heap->lock) when locking is enabled: whether caller t
\* can get past it, and the owner afterwards
_heap_lock(t) ==
    [can |-> (g_heap.lock_enabled => lock = NoThread),
     owner |-> IF g_heap.lock_enabled THEN t ELSE lock]

\* the owner after pthread_mutex_unlock(&heap->lock)
_heap_unlock(t) == IF g_heap.lock_enabled THEN NoThread ELSE lock

\* heap_allocate, the ordered insertion of the block of a new reservation
heap_allocate_insert(m, head, new_block, extend_ptr) ==
    LET ch == Chain(m, head)
        \* the cells the while loop steps over: the prefix with start_addr < extend_ptr
        stop == {i \in DOMAIN ch : ~(m[ch[i]].start_addr < extend_ptr)}
        npre == IF stop = {} THEN Len(ch) ELSE Min(stop) - 1
        prev_block == IF npre = 0 THEN NULL ELSE ch[npre]
    IN IF prev_block = NULL
       THEN LET m1 == [m EXCEPT ![new_block].next = head]
                m2 == IF head # NULL THEN [m1 EXCEPT ![head].prev = new_block] ELSE m1
            IN [mem |-> m2, head |-> new_block]
       ELSE LET m1 == [m EXCEPT ![new_block].prev = prev_block,
                                ![new_block].next = m[prev_block].next]
                m2 == [m1 EXCEPT ![prev_block].next = new_block]
                \* prev_block->next is new_block by now
                m3 == IF m2[prev_block].next # NULL
                      THEN [m2 EXCEPT ![m2[prev_block].next].prev = new_block]
                      ELSE m2
            IN [mem |-> m3, head |-> head]


\* heap_allocate that does not count the block a split adds
heap_allocate_stats_unsplit(h, bsize, split) ==
    LET ta == h.total_allocated + bsize
    IN [h EXCEPT !.total_allocated = ta,
                 !.total_free = @ - bsize,
                 !.peak_allocated = IF ta > @ THEN ta ELSE @]

\* heap_allocate, the counters after 'block' of bsize bytes was marked ALLOCATED
heap_allocate_stats(h, bsize, split) ==
    LET ta == h.total_allocated + bsize
    IN [h EXCEPT !.block_count = IF split THEN @ + 1 ELSE @,
                 !.total_allocated = ta,
                 !.total_free = @ - bsize,
                 !.peak_allocated = IF ta > @ THEN ta ELSE @]

\* heap_free that leaves total_allocated as it was
heap_free_stats_keep(h, bsize, merged) ==
    [h EXCEPT !.total_free = @ + bsize, !.block_count = @ - merged]

\* heap_free, the counters after a block of bsize bytes was marked FREE and
\* 'merged' neighbours were merged into it
heap_free_stats(h, bsize, merged) ==
    [h EXCEPT !.total_allocated = @ - bsize,
              !.total_free = @ + bsize,
              !.block_count = @ - merged]

\* heap_free that refuses only an address inside no block
heap_free_refuses_unknown(m, block) == block = NULL

\* heap_free refuses the address: it lies in no block, or its block is not ALLOCATED
heap_free_refuses(m, block) ==
    IF block = NULL THEN TRUE ELSE m[block].state # "ALLOCATED"

\* history of directly repeated myalloc(s)/myfree(p) pairs: base is the
\* allocated counter before the first pair of the run, n the pairs completed;
\* it is kept only by the specification that starts it at NoPair
NoPair == [phase |-> "none", base |-> 0, n |-> 0]
PairOff == [phase |-> "off", base |-> 0, n |-> 0]
PairBreak == IF pair.phase = "off" THEN pair ELSE NoPair
PairAlloc ==
    IF pair.phase = "off" THEN pair
    ELSE IF pair.phase = "done" THEN [pair EXCEPT !.phase = "alloc"]
    ELSE [phase |-> "alloc", base |-> g_heap.total_allocated, n |-> 0]
\* myfree(addr) is called: the pair goes on when the step before returned addr from myalloc
PairFreeCall(addr) ==
    IF pair.phase = "off" THEN pair
    ELSE IF pair.phase = "alloc" /\ hret = [op |-> "myalloc", val |-> addr, arg |-> 0]
    THEN [pair EXCEPT !.phase = "freeing"]
    ELSE NoPair
PairFreeDone ==
    IF pair.phase = "freeing"
    THEN [pair EXCEPT !.phase = "done", !.n = IF @ < MaxRepeat THEN @ + 1 ELSE @]
    ELSE pair

NoRet == [op |-> "none", val |-> 0, arg |-> 0]

\* the call returns v to caller t
Return(t, op, v) ==
    /\ hpc' = [hpc EXCEPT ![t] = "idle"]
    /\ harg' = [harg EXCEPT ![t] = 0]
    /\ hret' = [op |-> op, val |-> v, arg |-> 0]

\* the block records m, the heap h and the callers' block pointers blk become the new state
Store(m, h, blk) ==
    LET cn == Canon(Normalize(m, h.blocks_head, blk), h.blocks_head, blk)
    IN /\ mem' = cn.mem
       /\ g_heap' = [h EXCEPT !.blocks_head = cn.ren[@]]
       /\ hblk' = [u \in HThreads |-> cn.ren[blk[u]]]

\* myalloc(size), size > 0, on an initialised allocator: heap_allocate takes the heap lock and searches
\* the list; when it finds nothing it extends the heap
HeapAllocateFind(t, size) ==
    /\ hpc[t] = "idle"
    /\ size # 0
    /\ g_initialized
    /\ LET aligned_size == ALIGN_UP(size, ALIGN_SIZE)
           block == heap_find_free_block(mem, g_heap, aligned_size)
           extend_size == ALIGN_UP(aligned_size, PAGE_SIZE)
           Go == /\ hpc' = [hpc EXCEPT ![t] = "alloc_mark"]
                 /\ harg' = [harg EXCEPT ![t] = aligned_size]
                 /\ hret' = NoRet
                 /\ pair' = (IF pair.phase = "done" THEN pair ELSE PairBreak)
                 /\ UNCHANGED allocs
           Fail == /\ Return(t, "myalloc", NULL)
                   /\ pair' = PairBreak
                   /\ UNCHANGED <<mem, g_heap, hblk, allocs>>
       IN IF block # NULL
          THEN /\ _heap_lock(t).can /\ lock' = _heap_lock(t).owner
               /\ hblk' = [hblk EXCEPT ![t] = block]
               /\ Go
               /\ UNCHANGED <<mem, g_heap, g_vm_mgr>>
          ELSE \E extend_ptr \in Placements(g_vm_mgr, extend_size) \cup {NULL} :
               LET vr == vmalloc(g_vm_mgr, extend_ptr, extend_size)
               IN IF vr.ptr = NULL
                  THEN /\ _heap_lock(t).can /\ lock' = _heap_unlock(t)
                       /\ Fail
                       /\ UNCHANGED g_vm_mgr
                  ELSE \E c \in MallocChoices(mem, g_heap.blocks_head, hblk) \cup {NULL} :
                       LET cr == mem_block_create(mem, c, vr.ptr, extend_size, "FREE")
                       IN IF ~cr.ok
                          THEN /\ _heap_lock(t).can /\ lock' = _heap_unlock(t)
                               /\ g_vm_mgr' = vmfree(vr.vm, vr.ptr, extend_size)
                               /\ Fail
                          ELSE LET ins == heap_allocate_insert(cr.mem, g_heap.blocks_head, c, vr.ptr)
                               IN /\ _heap_lock(t).can /\ lock' = _heap_lock(t).owner
                                  /\ Store(ins.mem,
                                           [g_heap EXCEPT !.blocks_head = ins.head,
                                                          !.block_count = @ + 1,
                                                          !.total_free = @ + extend_size],
                                           [hblk EXCEPT ![t] = c])
                                  /\ g_vm_mgr' = vr.vm
                                  /\ Go
    /\ UNCHANGED <<g_initialized, pvars>>

\* heap_allocate: split, mark ALLOCATED, counters, unlock, return
HeapAllocateMark(t) ==
    /\ hpc[t] = "alloc_mark"
    /\ LET aligned_size == harg[t]
           block == hblk[t]
           need == mem[block].size > aligned_size
       IN \E c \in (IF need THEN MallocChoices(mem, g_heap.blocks_head, hblk) \cup {NULL}
                    ELSE {NULL}) :
          LET sr == IF need THEN mem_block_split(mem, block, aligned_size, c)
                    ELSE [ok |-> TRUE, mem |-> mem]
          IN IF ~sr.ok
             THEN /\ lock' = _heap_unlock(t)
                  /\ Return(t, "myalloc", NULL)
                  /\ hblk' = [hblk EXCEPT ![t] = NULL]
                  /\ pair' = PairBreak
                  /\ UNCHANGED <<mem, g_heap, g_vm_mgr, allocs>>
             ELSE LET m1 == [sr.mem EXCEPT ![block].state = "ALLOCATED"]
                      result_addr == m1[block].start_addr
                      same == {r \in allocs : r.addr = result_addr /\ r.size = aligned_size}
                  IN /\ Store(m1, heap_allocate_stats(g_heap, m1[block].size, need),
                              [hblk EXCEPT ![t] = NULL])
                     /\ allocs' = allocs \cup {[addr |-> result_addr, size |-> aligned_size,
                                                n |-> Cardinality(same) + 1]}
                     /\ pair' = PairAlloc
                     /\ lock' = _heap_unlock(t)
                     /\ Return(t, "myalloc", result_addr)
                     /\ UNCHANGED g_vm_mgr
    /\ UNCHANGED <<g_initialized, pvars>>

\* the addresses callers pass to myfree: the start of every block, an address
\* inside every ALLOCATED block, and an address inside no block
FreeAddrs ==
    LET ch == Range(Chain(mem, g_heap.blocks_head))
    IN {mem[b].start_addr : b \in ch}
       \cup {mem[b].start_addr + ALIGN_SIZE :
                b \in {x \in ch : mem[x].state = "ALLOCATED" /\ mem[x].size > ALIGN_SIZE}}
       \cup {BadAddr}

\* myfree(addr), addr non-null: heap_free takes the heap lock, finds the block
\* and refuses an unknown address and a block that is not ALLOCATED
HeapFreeFind(t, addr) ==
    /\ hpc[t] = "idle"
    /\ addr # NULL
    /\ g_initialized
    /\ LET block == heap_find_block(mem, g_heap.blocks_head, addr)
       IN IF heap_free_refuses(mem, block)
          THEN /\ _heap_lock(t).can /\ lock' = _heap_unlock(t)
               /\ hret' = [op |-> "myfree", val |-> -1, arg |-> addr]
               /\ pair' = PairBreak
               /\ UNCHANGED <<mem, g_heap, g_vm_mgr, hpc, harg, hblk, allocs>>
          ELSE /\ _heap_lock(t).can /\ lock' = _heap_lock(t).owner
               /\ hblk' = [hblk EXCEPT ![t] = block]
               /\ hpc' = [hpc EXCEPT ![t] = "free_mark"]
               /\ harg' = [harg EXCEPT ![t] = addr]
               /\ hret' = NoRet
               /\ pair' = PairFreeCall(addr)
               /\ UNCHANGED <<mem, g_heap, g_vm_mgr, allocs>>
    /\ UNCHANGED <<g_initialized, pvars>>

\* heap_free: mark FREE, counters, merge with the neighbours, unlock, return
HeapFreeMark(t) ==
    /\ hpc[t] = "free_mark"
    /\ LET block == hblk[t]
           bsize == mem[block].size
           bstart == mem[block].start_addr
           m1 == [mem EXCEPT ![block].state = "FREE"]
           mr == _heap_try_merge_adjacent(m1, block)
           blk1 == [hblk EXCEPT ![t] = NULL]
           \* the records this call destroyed that something still points to
           gone == {c \in Cells : m1[c].live /\ ~mr.mem[c].live
                                  /\ Referenced(mr.mem, g_heap.blocks_head, blk1, c)}
       IN \E m2 \in {[c \in Cells |-> IF c \in gone THEN FreedCell(mr.mem[c], k) ELSE mr.mem[c]] :
                     k \in FreedKinds} :
          /\ Store(m2, heap_free_stats(g_heap, bsize, mr.count), blk1)
          /\ allocs' = {r \in allocs : r.addr # bstart}
          /\ pair' = PairFreeDone
          /\ lock' = _heap_unlock(t)
          /\ Return(t, "myfree", 0)
          /\ UNCHANGED g_vm_mgr
    /\ UNCHANGED <<g_initialized, pvars>>

\* heap_merge_free_blocks, the loop from 'block' on: two consecutive FREE
\* blocks that are address-adjacent are merged and the loop stays on the block
RECURSIVE heap_merge_free_blocks_from(_, _, _, _)
heap_merge_free_blocks_from(m, block, merge_count, fuel) ==
    IF block = NULL \/ fuel = 0 THEN [count |-> merge_count, mem |-> m]
    ELSE IF m[block].next = NULL THEN [count |-> merge_count, mem |-> m]
    ELSE LET next == m[block].next
         IN IF /\ m[block].state = "FREE" /\ m[next].state = "FREE"
               /\ mem_block_is_adjacent(m, block, next)
            THEN heap_merge_free_blocks_from(mem_block_merge(m, block, next).mem, block,
                                             merge_count + 1, fuel - 1)
            ELSE heap_merge_free_blocks_from(m, next, merge_count, fuel - 1)

heap_merge_free_blocks(m, head) == heap_merge_free_blocks_from(m, head, 0, 2 * MaxBlocks)

\* heap_find_block(heap, addr) called through heap.h: the list is walked
\* without the heap lock
HeapFindBlock(t, addr) ==
    /\ hpc[t] = "idle"
    /\ g_initialized
    /\ hret' = [op |-> "heap_find_block",
                val |-> heap_find_block(mem, g_heap.blocks_head, addr), arg |-> 0]
    /\ pair' = PairBreak
    /\ UNCHANGED <<mem, g_heap, g_vm_mgr, lock, hpc, harg, hblk, g_initialized, allocs>>
    /\ UNCHANGED pvars

\* heap_find_free_block(heap, size) called through heap.h: the list is walked
\* without the heap lock; val is the block found (NULL: none)
HeapFindFreeBlock(t, size) ==
    /\ hpc[t] = "idle"
    /\ g_initialized
    /\ hret' = [op |-> "heap_find_free_block",
                val |-> heap_find_free_block(mem, g_heap, size), arg |-> size]
    /\ pair' = PairBreak
    /\ UNCHANGED <<mem, g_heap, g_vm_mgr, lock, hpc, harg, hblk, g_initialized, allocs>>
    /\ UNCHANGED pvars

\* heap_merge_free_blocks(heap) called through heap.h: the list is walked and
\* relinked and block_count decremented without the heap lock
HeapMergeFreeBlocks(t) ==
    /\ hpc[t] = "idle"
    /\ g_initialized
    /\ LET mr == heap_merge_free_blocks(mem, g_heap.blocks_head)
           \* the records this call destroyed that something still points to
           gone == {c \in Cells : mem[c].live /\ ~mr.mem[c].live
                                  /\ Referenced(mr.mem, g_heap.blocks_head, hblk, c)}
       IN \E m2 \in {[c \in Cells |-> IF c \in gone THEN FreedCell(mr.mem[c], k) ELSE mr.mem[c]] :
                     k \in FreedKinds} :
          /\ Store(m2, [g_heap EXCEPT !.block_count = @ - mr.count], hblk)
          /\ hret' = [op |-> "heap_merge_free_blocks", val |-> mr.count, arg |-> 0]
    /\ pair' = PairBreak
    /\ UNCHANGED <<g_vm_mgr, lock, hpc, harg, g_initialized, allocs>>
    /\ UNCHANGED pvars

\* heap_stats(heap, ...): the three counters are read under the heap lock
HeapStats(t) ==
    /\ hpc[t] = "idle"
    /\ g_initialized
    /\ _heap_lock(t).can /\ lock' = _heap_unlock(t)
    /\ hret' = [op |-> "heap_stats", val |-> 0, arg |-> g_heap.total_allocated]
    /\ pair' = PairBreak
    /\ UNCHANGED <<mem, g_heap, g_vm_mgr, hpc, harg, hblk, g_initialized, allocs>>
    /\ UNCHANGED pvars

\* heap_verify(heap) and heap_dump(heap): the list is walked under the heap lock
HeapVerify(t) ==
    /\ hpc[t] = "idle"
    /\ g_initialized
    /\ _heap_lock(t).can /\ lock' = _heap_unlock(t)
    /\ \/ hret' = [op |-> "heap_verify", val |-> heap_verify(mem, g_heap), arg |-> 0]
       \/ hret' = [op |-> "heap_dump", val |-> 0, arg |-> 0]
    /\ pair' = PairBreak
    /\ UNCHANGED <<mem, g_heap, g_vm_mgr, hpc, harg, hblk, g_initialized, allocs>>
    /\ UNCHANGED pvars

-----------------------------------------------------------------------------
(* The facade: allocator_init, allocator_cleanup, myalloc, myfree, ...     *)

\* the allocator before allocator_init and after allocator_cleanup: no VM
\* manager, no heap (g_heap == NULL), no block record
NoVm == [regions |-> <<>>, total_allocated |-> 0, region_count |-> 0]
NoHeap == [blocks_head |-> NULL, block_count |-> 0, total_allocated |-> 0,
           total_free |-> 0, peak_allocated |-> 0,
           lock_enabled |-> TRUE, alloc_strategy |-> "FIRST_FIT"]
NoMem == [c \in Cells |-> ZeroCell]

\* a myfree that has no early return for a null pointer
myfree_ignores_nothing(ptr) == FALSE

\* myfree, the test before anything else: a null pointer is accepted at once
myfree_ignores(ptr) == ptr = NULL

\* myalloc, the test before anything else: a size of 0 is refused at once
myalloc_rejects(size) == size = 0

\* allocator_init(true) on an allocator that is not initialised: vm_ptr is
\* what the mmap of heap_init returned (NULL: it failed, or a malloc of
\* vmalloc_init / heap_init did, and everything built so far is released)
allocator_init(vm_ptr) ==
    IF vm_ptr = NULL
    THEN [ret |-> -1, mem |-> NoMem, heap |-> NoHeap, vm |-> NoVm, initialized |-> FALSE]
    ELSE [ret |-> 0, mem |-> heap_init_mem(vm_ptr), heap |-> heap_init(vm_ptr),
          vm |-> vmalloc(NoVm, vm_ptr, POOL_INIT_SIZE).vm, initialized |-> TRUE]

\* the allocator becomes what allocator_init(vm_ptr) built
Install(r) ==
    /\ mem' = r.mem
    /\ g_heap' = r.heap
    /\ g_vm_mgr' = r.vm
    /\ g_initialized' = r.initialized

\* allocator_init(true) called by the program: nothing to do when initialised
AllocatorInit(t) ==
    /\ hpc[t] = "idle"
    /\ IF g_initialized
       THEN /\ hret' = [op |-> "allocator_init", val |-> 0, arg |-> 0]
            /\ UNCHANGED <<mem, g_heap, g_vm_mgr, g_initialized>>
       ELSE \E vm_ptr \in Placements(NoVm, POOL_INIT_SIZE) \cup {NULL} :
               /\ Install(allocator_init(vm_ptr))
               /\ hret' = [op |-> "allocator_init", val |-> allocator_init(vm_ptr).ret, arg |-> 0]
    /\ pair' = PairBreak
    /\ UNCHANGED <<lock, hpc, harg, hblk, allocs>>
    /\ UNCHANGED pvars

\* myalloc(size) / myfree(ptr) with size > 0, ptr non-null on an allocator
\* that is not initialised: _allocator_ensure_initialized calls
\* allocator_init(true) under g_init_lock; on success the call goes on with
\* heap_allocate / heap_free, on failure myalloc returns NULL and myfree -1
AllocatorEnsureInitialized(t) ==
    /\ hpc[t] = "idle"
    /\ ~g_initialized
    /\ \E vm_ptr \in Placements(NoVm, POOL_INIT_SIZE) \cup {NULL} :
          LET r == allocator_init(vm_ptr)
          IN /\ Install(r)
             /\ IF r.ret = 0
                THEN hret' = [op |-> "_allocator_ensure_initialized", val |-> 0, arg |-> 0]
                ELSE \/ hret' = [op |-> "myalloc", val |-> NULL, arg |-> 0]
                     \/ hret' = [op |-> "myfree", val |-> -1, arg |-> 0]
    /\ pair' = PairBreak
    /\ UNCHANGED <<lock, hpc, harg, hblk, allocs>>
    /\ UNCHANGED pvars

\* allocator_cleanup: nothing to do when not initialised; else heap_cleanup
\* (under the heap lock every block record is destroyed, then the heap is
\* freed), vmalloc_cleanup (every reservation unmapped, the manager freed)
\* and g_initialized = false
AllocatorCleanup(t) ==
    /\ hpc[t] = "idle"
    /\ IF ~g_initialized
       THEN UNCHANGED <<mem, g_heap, g_vm_mgr, g_initialized, lock, allocs>>
       ELSE /\ _heap_lock(t).can /\ lock' = _heap_unlock(t)
            /\ mem' = NoMem
            /\ g_heap' = NoHeap
            /\ g_vm_mgr' = NoVm
            /\ g_initialized' = FALSE
            /\ allocs' = {}
    /\ hret' = [op |-> "allocator_cleanup", val |-> 0, arg |-> 0]
    /\ pair' = PairBreak
    /\ UNCHANGED <<hpc, harg, hblk>>
    /\ UNCHANGED pvars

\* allocator_stats: -1 when not initialised, else heap_stats under the heap lock
AllocatorStats(t) ==
    /\ hpc[t] = "idle"
    /\ IF ~g_initialized
       THEN /\ hret' = [op |-> "allocator_stats", val |-> -1, arg |-> 0]
            /\ UNCHANGED lock
       ELSE /\ _heap_lock(t).can /\ lock' = _heap_unlock(t)
            /\ hret' = [op |-> "allocator_stats", val |-> 0, arg |-> g_heap.total_allocated]
    /\ pair' = PairBreak
    /\ UNCHANGED <<mem, g_heap, g_vm_mgr, hpc, harg, hblk, g_initialized, allocs>>
    /\ UNCHANGED pvars

\* allocator_verify: -1 when not initialised, else heap_verify under the heap lock
AllocatorVerify(t) ==
    /\ hpc[t] = "idle"
    /\ IF ~g_initialized
       THEN /\ hret' = [op |-> "allocator_verify", val |-> -1, arg |-> 0]
            /\ UNCHANGED lock
       ELSE /\ _heap_lock(t).can /\ lock' = _heap_unlock(t)
            /\ hret' = [op |-> "allocator_verify", val |-> heap_verify(mem, g_heap), arg |-> 0]
    /\ pair' = PairBreak
    /\ UNCHANGED <<mem, g_heap, g_vm_mgr, hpc, harg, hblk, g_initialized, allocs>>
    /\ UNCHANGED pvars

\* myalloc(0): NULL at once.  (Past that test the call would go through
\* _allocator_ensure_initialized and heap_allocate, which refuses size 0.)
MyallocZero(t) ==
    /\ hpc[t] = "idle"
    /\ IF myalloc_rejects(0) \/ g_initialized
       THEN UNCHANGED <<mem, g_heap, g_vm_mgr, g_initialized>>
       ELSE \E vm_ptr \in Placements(NoVm, POOL_INIT_SIZE) \cup {NULL} :
               Install(allocator_init(vm_ptr))
    /\ hret' = [op |-> "myalloc(0)", val |-> NULL, arg |-> 0]
    /\ pair' = PairBreak
    /\ UNCHANGED <<lock, hpc, harg, hblk, allocs>>
    /\ UNCHANGED pvars

\* myfree(NULL): 0 at once.  (Past that test the call would go through
\* _allocator_ensure_initialized and heap_free, which returns -1 for NULL.)
MyfreeNull(t) ==
    /\ hpc[t] = "idle"
    /\ IF myfree_ignores(NULL)
       THEN /\ hret' = [op |-> "myfree(NULL)", val |-> 0, arg |-> 0]
            /\ UNCHANGED <<mem, g_heap, g_vm_mgr, g_initialized>>
       ELSE /\ hret' = [op |-> "myfree(NULL)", val |-> -1, arg |-> 0]
            /\ IF g_initialized
               THEN UNCHANGED <<mem, g_heap, g_vm_mgr, g_initialized>>
               ELSE \E vm_ptr \in Placements(NoVm, POOL_INIT_SIZE) \cup {NULL} :
                       Install(allocator_init(vm_ptr))
    /\ pair' = PairBreak
    /\ UNCHANGED <<lock, hpc, harg, hblk, allocs>>
    /\ UNCHANGED pvars

\* the address mmap gives a reservation made by allocator_init: the lowest
\* free run of pages among the first InitPages
InitPages == 21
InitPlacement(vm, length) ==
    LET n == length \div PAGE_SIZE
        mapped == UNION {Pages(vm.regions[i].start_addr, vm.regions[i].length) :
                         i \in DOMAIN vm.regions}
        free == {q \in 1 .. InitPages : /\ q + n - 1 <= InitPages
                                        /\ (q .. (q + n - 1)) \cap mapped = {}}
    IN IF free = {} THEN NULL ELSE Min(free) * PAGE_SIZE

\* allocator_init(true) called by the program, its first test (g_initialized
\* read without any lock): return 0 at once, or go on to build
AllocatorInitEnter(t) ==
    /\ hpc[t] = "idle"
    /\ IF g_initialized
       THEN /\ hret' = [op |-> "allocator_init", val |-> 0, arg |-> 0]
            /\ UNCHANGED hpc
       ELSE /\ hpc' = [hpc EXCEPT ![t] = "init"]
            /\ hret' = NoRet
    /\ pair' = PairBreak
    /\ UNCHANGED <<mem, g_heap, g_vm_mgr, lock, harg, hblk, g_initialized, allocs>>
    /\ UNCHANGED pvars

\* myalloc(size) / myfree(ptr), size > 0, ptr non-null:
\* _allocator_ensure_initialized reads g_initialized without a lock and, when
\* it is false, goes on to pthread_mutex_lock(&g_init_lock)
AllocatorEnsureEnter(t) ==
    /\ hpc[t] = "idle"
    /\ ~g_initialized
    /\ hpc' = [hpc EXCEPT ![t] = "ens"]
    /\ hret' = NoRet
    /\ pair' = PairBreak
    /\ UNCHANGED <<mem, g_heap, g_vm_mgr, lock, harg, hblk, g_initialized, allocs>>
    /\ UNCHANGED pvars

\* _allocator_ensure_initialized gets g_init_lock (held by the caller that is
\* at "ens_init") and tests g_initialized again: unlock and return 0, or call
\* allocator_init(true), whose own test reads the same value
AllocatorEnsureLock(t) ==
    /\ hpc[t] = "ens"
    /\ \A u \in HThreads : hpc[u] # "ens_init"
    /\ IF g_initialized
       THEN /\ hpc' = [hpc EXCEPT ![t] = "idle"]
            /\ hret' = [op |-> "_allocator_ensure_initialized", val |-> 0, arg |-> 0]
       ELSE /\ hpc' = [hpc EXCEPT ![t] = "ens_init"]
            /\ hret' = NoRet
    /\ pair' = PairBreak
    /\ UNCHANGED <<mem, g_heap, g_vm_mgr, lock, harg, hblk, g_initialized, allocs>>
    /\ UNCHANGED pvars

\* allocator_init past its test: vmalloc_init (which keeps a manager that
\* exists), g_heap = heap_init(POOL_INIT_SIZE, true) on a new reservation,
\* g_initialized = true, return 0; from _allocator_ensure_initialized the
\* caller then unlocks g_init_lock.  The mmap succeeds.  A heap that g_heap
\* pointed to is leaked with its block records and its own lock; a caller
\* inside heap_allocate / heap_free keeps the pointer it read and finishes on
\* that heap, so this step is ordered after the end of such a call.
AllocatorInitBuild(t) ==
    /\ hpc[t] \in {"init", "ens_init"}
    /\ \A u \in HThreads : hpc[u] \in {"idle", "init", "ens", "ens_init"}
    /\ LET vm_ptr == InitPlacement(g_vm_mgr, POOL_INIT_SIZE)
       IN /\ vm_ptr # NULL
          /\ mem' = heap_init_mem(vm_ptr)
          /\ g_heap' = heap_init(vm_ptr)
          /\ g_vm_mgr' = vmalloc(g_vm_mgr, vm_ptr, POOL_INIT_SIZE).vm
    /\ g_initialized' = TRUE
    /\ lock' = NoThread
    /\ hpc' = [hpc EXCEPT ![t] = "idle"]
    /\ hret' = [op |-> (IF hpc[t] = "init" THEN "allocator_init"
                        ELSE "_allocator_ensure_initialized"), val |-> 0, arg |-> 0]
    /\ pair' = PairBreak
    /\ UNCHANGED <<harg, hblk, allocs>>
    /\ UNCHANGED pvars

\* the allocator before any call: nothing is initialised
AllocatorUninitialized ==
    /\ mem = NoMem
    /\ g_heap = NoHeap
    /\ g_vm_mgr = NoVm
    /\ lock = NoThread
    /\ hpc = [t \in HThreads |-> "idle"]
    /\ harg = [t \in HThreads |-> 0]
    /\ hblk = [t \in HThreads |-> NULL]
    /\ hret = NoRet
    /\ g_initialized = FALSE
    /\ allocs = {}
    /\ pair = PairOff

\* the allocator after allocator_init: vmalloc_init, heap_init(POOL_INIT_SIZE, true)
HeapInitAt(vm_ptr, pair0) ==
    /\ mem = heap_init_mem(vm_ptr)
    /\ g_heap = heap_init(vm_ptr)
    /\ g_vm_mgr = vmalloc([regions |-> <<>>, total_allocated |-> 0, region_count |-> 0],
                          vm_ptr, POOL_INIT_SIZE).vm
    /\ lock = NoThread
    /\ hpc = [t \in HThreads |-> "idle"]
    /\ harg = [t \in HThreads |-> 0]
    /\ hblk = [t \in HThreads |-> NULL]
    /\ hret = NoRet
    /\ g_initialized = TRUE
    /\ allocs = {}
    /\ pair = pair0

\* the values of heap->alloc_strategy
Strategies == {"FIRST_FIT", "BEST_FIT", "WORST_FIT"}

\* a heap as heap_init leaves it, with alloc_strategy set to strategy
HeapInitStrategy(vm_ptr, strategy) ==
    /\ mem = heap_init_mem(vm_ptr)
    /\ g_heap = [heap_init(vm_ptr) EXCEPT !.alloc_strategy = strategy]
    /\ g_vm_mgr = vmalloc([regions |-> <<>>, total_allocated |-> 0, region_count |-> 0],
                          vm_ptr, POOL_INIT_SIZE).vm
    /\ lock = NoThread
    /\ hpc = [t \in HThreads |-> "idle"]
    /\ harg = [t \in HThreads |-> 0]
    /\ hblk = [t \in HThreads |-> NULL]
    /\ hret = NoRet
    /\ g_initialized = TRUE
    /\ allocs = {}
    /\ pair = PairOff

HeapInitWith(pair0) ==
    \E vm_ptr \in Placements([regions |-> <<>>], POOL_INIT_SIZE) : HeapInitAt(vm_ptr, pair0)

\* the steps of a caller of myalloc and myfree that requests the given sizes
HeapCallsOf(t, sizes) ==
    \/ \E size \in sizes : HeapAllocateFind(t, size)
    \/ HeapAllocateMark(t)
    \/ \E addr \in FreeAddrs : HeapFreeFind(t, addr)
    \/ HeapFreeMark(t)

HeapCalls(t) == HeapCallsOf(t, Sizes)

HeapNext == \E t \in HThreads : HeapCalls(t)

\* the other operations of heap.h, called directly on the heap
HeapApiCalls(t) ==
    \/ \E addr \in FreeAddrs : HeapFindBlock(t, addr)
    \/ \E size \in PageSizes : HeapFindFreeBlock(t, size)
    \/ HeapMergeFreeBlocks(t)
    \/ HeapStats(t)
    \/ HeapVerify(t)

\* one caller of myalloc and myfree, one caller of the other operations
HeapApiNext == HeapCallsOf("h1", PageSizes) \/ HeapApiCalls("h2")

\* two callers whose first calls find the allocator uninitialised
InitNext ==
    \E t \in HThreads :
        \/ AllocatorInitEnter(t)
        \/ AllocatorEnsureEnter(t)
        \/ AllocatorEnsureLock(t)
        \/ AllocatorInitBuild(t)
        \/ HeapCallsOf(t, PageSizes)

\* one caller that uses the whole facade
FacadeNext ==
    \/ HeapCallsOf("h1", PageSizes)
    \/ AllocatorInit("h1")
    \/ AllocatorEnsureInitialized("h1")
    \/ AllocatorCleanup("h1")
    \/ AllocatorStats("h1")
    \/ AllocatorVerify("h1")
    \/ MyallocZero("h1")
    \/ MyfreeNull("h1")

-----------------------------------------------------------------------------
(* The task queue and the thread pool                                      *)

\* a Task record nobody allocated yet; st follows the record's life:
\* none, created, queued, running (its function is executing), returned, freed;
\* nrun counts calls of its function, nclean calls of its cleanup, 'at' is
\* the st the record had when cleanup was called, and seq is the value of
\* total_enqueued when the record was appended to the list (0: never)
NewTask == [st |-> "none", cleanup |-> FALSE, nrun |-> 0, nclean |-> 0, at |-> "none", seq |-> 0]

\* the controlling thread, and the index of each worker in pool->threads
Main == "main"
Index == [w \in Workers |-> IF w = "w1" THEN 0 ELSE 1]

\* what the step just taken did on the queue's condition variables and which
\* call returned in it: cv is the condition signalled or broadcast ("all":
\* the four of task_queue_destroy), held tells whether the caller held the
\* queue mutex at that moment, op and val are the call and its return value
NoEv == [cv |-> "none", held |-> TRUE, op |-> "none", val |-> 0]
Signalled(cv, held) == [NoEv EXCEPT !.cv = cv, !.held = held]
Returned(op, val) == [NoEv EXCEPT !.op = op, !.val = val]

\* a signal that wakes nobody
pthread_cond_signal_lost(pc, waiting, go) == {pc}

\* pthread_cond_signal: one of the threads waiting at 'waiting' (if any) goes on to 'go'
pthread_cond_signal(pc, waiting, go) ==
    LET ws == {t \in DOMAIN pc : pc[t] = waiting}
    IN IF ws = {} THEN {pc} ELSE {[pc EXCEPT ![t] = go] : t \in ws}

\* pthread_cond_broadcast: every thread waiting at 'waiting' goes on to 'go'
pthread_cond_broadcast(pc, waiting, go) ==
    [t \in DOMAIN pc |-> IF pc[t] = waiting THEN go ELSE pc[t]]

\* a queue mutex that excludes nobody
pthread_mutex_lock_free(m) == TRUE

\* pthread_mutex_lock(&queue->mutex) can return: nobody holds the mutex
pthread_mutex_lock(m) == m = NoThread

\* the two mutexes of the pool, and the calls a step makes on them
StateLock == "state_lock"
QueueMutex == "mutex"
Lk(m) == [op |-> "lock", m |-> m]
Ul(m) == [op |-> "unlock", m |-> m]

\* one critical section under pool->state_lock, and one under queue->mutex
state_section == <<Lk(StateLock), Ul(StateLock)>>
queue_section == <<Lk(QueueMutex), Ul(QueueMutex)>>

\* a loop head that goes on to the queue with the state lock still held
_work_thread_locks_kept == <<Lk(StateLock)>>

\* _work_thread, the head of the loop: lock, read should_exit, unlock
_work_thread_locks == state_section

\* the pool mutexes thread t holds between two steps
HeldBy(t) ==
    (IF state_lock = t THEN {StateLock} ELSE {}) \cup (IF qmutex = t THEN {QueueMutex} ELSE {})

\* the calls of one step made in order by a thread that holds 'held': what it
\* holds afterwards, and what it held when it held most
RECURSIVE Replay(_, _, _)
Replay(held, most, calls) ==
    IF calls = <<>> THEN [held |-> held, most |-> most]
    ELSE LET c == Head(calls)
             h == IF c.op = "lock" THEN held \cup {c.m} ELSE held \ {c.m}
         IN Replay(h, IF Cardinality(h) > Cardinality(most) THEN h ELSE most, Tail(calls))

\* thread t makes these calls in this step: the state lock has to be free when
\* the step locks it
Locks(t, calls) ==
    LET r == Replay(HeldBy(t), HeldBy(t), calls)
    IN /\ (\E i \in DOMAIN calls : calls[i] = Lk(StateLock)) => pthread_mutex_lock(state_lock)
       /\ state_lock' = (IF StateLock \in r.held THEN t
                         ELSE IF state_lock = t THEN NoThread ELSE state_lock)
       /\ pheld' = (IF Cardinality(r.most) > 1 THEN r.most ELSE {})

\* _task_destroy that frees the record and forgets the cleanup
_task_destroy_leak(ts, id) ==
    IF id = NULL THEN ts ELSE [ts EXCEPT ![id].st = "freed"]

\* _task_destroy: call cleanup(arg) if there is one, then free the record
_task_destroy(ts, id) ==
    IF id = NULL THEN ts
    ELSE LET r == ts[id]
         IN [ts EXCEPT ![id] = [r EXCEPT !.nclean = IF r.cleanup THEN r.nclean + 1 ELSE r.nclean,
                                         !.at = IF r.cleanup THEN r.st ELSE r.at,
                                         !.st = "freed"]]

\* the loop test of task_queue_push taken as count > max_count
task_queue_full_late(q) == q.max_count > 0 /\ q.count > q.max_count

\* the loop test of task_queue_push: the producer has to wait on not_full
task_queue_full(q) == q.max_count > 0 /\ q.count >= q.max_count

\* the loop test of task_queue_wait_empty taken as count > 0 alone
task_queue_busy_count(q) == q.count > 0

\* the loop test of task_queue_wait_empty: the caller has to wait on all_done
task_queue_busy(q) == q.count > 0 \/ q.active_tasks > 0

\* a shutdown test that does not look at count
task_queue_pop_exits_on_shutdown(q, should_shutdown) == should_shutdown

\* task_queue_pop_and_execute and task_queue_pop after the wait loop: return
\* without a task when shutdown is set and nothing is queued
task_queue_pop_exits(q, should_shutdown) == should_shutdown /\ q.count = 0

\* the loop test of task_queue_pop_and_execute taken as count == 0 alone
task_queue_pop_waits_empty(q, should_shutdown) == q.count = 0

\* the loop test of task_queue_pop_and_execute: the worker has to wait on not_empty
task_queue_pop_waits(q, should_shutdown) == q.count = 0 /\ ~should_shutdown

\* task_queue_create(max_size)
task_queue_create(max_size) ==
    [items |-> <<>>, count |-> 0, max_count |-> max_size, active_tasks |-> 0,
     total_processed |-> 0, total_enqueued |-> 0, total_dequeued |-> 0, alive |-> TRUE]

\* task_queue_push that appends without counting the task in total_enqueued
task_queue_append_uncounted(q, task) ==
    [q EXCEPT !.items = Append(@, task), !.count = @ + 1]

\* task_queue_push, the append: the task becomes the back of the list,
\* count++ and stats.total_enqueued++
task_queue_append(q, task) ==
    [q EXCEPT !.items = Append(@, task), !.count = @ + 1, !.total_enqueued = @ + 1]

\* a detach that takes the back of the list
task_queue_detach_back(q) ==
    [task |-> q.items[Len(q.items)], items |-> SubSeq(q.items, 1, Len(q.items) - 1)]

\* task_queue_pop_and_execute, the detach: task = front, front = task->next
task_queue_detach(q) ==
    [task |-> Head(q.items), items |-> Tail(q.items)]

\* a second critical section that leaves active_tasks as it is
task_queue_finish_keep(q) == q

\* task_queue_pop_and_execute, the second critical section: active_tasks--
task_queue_finish(q) == [q EXCEPT !.active_tasks = @ - 1]

\* task_queue_destroy, the loop over the list: _task_destroy on every task still queued
RECURSIVE task_queue_drain(_, _)
task_queue_drain(ts, items) ==
    IF items = <<>> THEN ts
    ELSE task_queue_drain(_task_destroy(ts, Head(items)), Tail(items))

\* a submit that accepts in every state of the pool
thread_pool_submit_refuses_never(state) == FALSE

\* thread_pool_submit, the test under the state lock: refuse unless RUNNING
thread_pool_submit_refuses(state) == state # "RUNNING"

\* the workers thread_pool_create has not spawned yet
Unborn(pc) == {w \in Workers : pc[w] = "unborn"}

\* a create that publishes RUNNING once the first worker is spawned
thread_pool_create_spawned_first(pc) == Unborn(pc) # Workers

\* thread_pool_create, the end of the spawn loop: every worker was spawned
thread_pool_create_spawned(pc) == Unborn(pc) = {}

\* the workers of the pool (index below num_threads) and, during a shrink,
\* the trailing ones that were told to exit
Threads(pl) == {w \in Workers : Index[w] < pl.num_threads}
Trailing(pl) == {w \in Threads(pl) : pl.should_exit[w]}

\* thread_pool_submit: on a pool that was freed the behaviour is undefined
\* (pc "ub"); refuse unless RUNNING, then task_queue_submit allocates the Task
\* record (malloc may fail) and goes on to task_queue_push
ThreadPoolSubmit(p) ==
    /\ ppc[p] = "idle"
    /\ ntasks < MaxTasks
    /\ IF ~pool.alive
       THEN /\ ppc' = [ppc EXCEPT ![p] = "ub"]
            /\ pev' = NoEv
            /\ UNCHANGED <<tasks, ntasks, ptask>>
       ELSE IF thread_pool_submit_refuses(pool.state)
       THEN /\ pev' = Returned("submit", -1)
            /\ UNCHANGED <<tasks, ntasks, ptask, ppc>>
       ELSE \E cleanup \in BOOLEAN, ok \in BOOLEAN :
            IF ~ok
            THEN /\ pev' = Returned("submit", -1)
                 /\ UNCHANGED <<tasks, ntasks, ptask, ppc>>
            ELSE /\ ntasks' = ntasks + 1
                 /\ tasks' = [tasks EXCEPT ![ntasks + 1] =
                                 [NewTask EXCEPT !.st = "created", !.cleanup = cleanup]]
                 /\ ptask' = [ptask EXCEPT ![p] = ntasks + 1]
                 /\ ppc' = [ppc EXCEPT ![p] = "push"]
                 /\ pev' = NoEv
    /\ UNCHANGED <<pool, queue, accepted, wpc, wtask, mpc, wsnap, qmutex>>
    /\ Locks(p, IF pool.alive THEN state_section ELSE <<>>)
    /\ UNCHANGED hvars

\* task_queue_push under the queue mutex: decide to wait on not_full while the
\* queue is full (the mutex stays held until pthread_cond_wait), else append,
\* count, signal not_empty and return 0.  On a queue that task_queue_destroy
\* freed the behaviour is undefined (pc "ub").
TaskQueuePush(p) ==
    /\ ppc[p] = "push"
    /\ IF ~queue.alive
       THEN /\ ppc' = [ppc EXCEPT ![p] = "ub"]
            /\ pev' = NoEv
            /\ UNCHANGED <<queue, tasks, accepted, ptask, wpc, qmutex>>
       ELSE /\ pthread_mutex_lock(qmutex)
            /\ IF task_queue_full(queue)
               THEN /\ ppc' = [ppc EXCEPT ![p] = "push_block"]
                    /\ qmutex' = p
                    /\ pev' = NoEv
                    /\ UNCHANGED <<queue, tasks, accepted, ptask, wpc>>
               ELSE /\ queue' = task_queue_append(queue, ptask[p])
                    /\ tasks' = [tasks EXCEPT ![ptask[p]].st = "queued",
                                              ![ptask[p]].seq = queue'.total_enqueued]
                    /\ wpc' \in pthread_cond_signal(wpc, "pop_wait", "pop")
                    /\ accepted' = accepted \cup {ptask[p]}
                    /\ ppc' = [ppc EXCEPT ![p] = "idle"]
                    /\ ptask' = [ptask EXCEPT ![p] = NULL]
                    /\ pev' = [cv |-> "not_empty", held |-> TRUE, op |-> "submit", val |-> 0]
                    /\ UNCHANGED qmutex
    /\ UNCHANGED <<pool, ntasks, wtask, mpc, wsnap>>
    /\ Locks(p, IF ~queue.alive THEN <<>>
                 ELSE IF task_queue_full(queue) THEN <<Lk(QueueMutex)>> ELSE queue_section)
    /\ UNCHANGED hvars

\* pthread_cond_wait: the caller, holding the queue mutex after its loop test,
\* releases it and blocks on its condition in one atomic step
PthreadCondWait ==
    /\ \/ \E p \in Producers : /\ ppc[p] = "push_block"
                               /\ ppc' = [ppc EXCEPT ![p] = "push_wait"]
                               /\ Locks(p, <<Ul(QueueMutex)>>)
                               /\ UNCHANGED <<wpc, mpc>>
       \/ \E w \in Workers : /\ wpc[w] = "pop_block"
                             /\ wpc' = [wpc EXCEPT ![w] = "pop_wait"]
                             /\ Locks(w, <<Ul(QueueMutex)>>)
                             /\ UNCHANGED <<ppc, mpc>>
       \/ /\ mpc = "wa_block"
          /\ mpc' = "wa_wait"
          /\ Locks(Main, <<Ul(QueueMutex)>>)
          /\ UNCHANGED <<ppc, wpc>>
    /\ qmutex' = NoThread
    /\ pev' = NoEv
    /\ UNCHANGED <<pool, queue, tasks, ntasks, accepted, ptask, wtask, wsnap>>
    /\ UNCHANGED hvars

\* what a worker can read as info->should_exit: the flag of its entry, or any
\* value when its info pointer is into an array that was freed
info_should_exit(pl, w) == IF w \in pl.dangling THEN BOOLEAN ELSE {pl.should_exit[w]}

\* _work_thread, the head of the loop: read should_exit under the state lock
WorkThreadLoop(w) ==
    /\ wpc[w] = "loop"
    /\ \E should_exit \in info_should_exit(pool, w) :
          wpc' = [wpc EXCEPT ![w] = IF should_exit THEN "exited" ELSE "pop"]
    /\ pev' = NoEv
    /\ UNCHANGED <<pool, queue, tasks, ntasks, accepted, ppc, ptask, wtask, mpc, wsnap, qmutex>>
    /\ Locks(w, _work_thread_locks)
    /\ UNCHANGED hvars

\* task_queue_pop_and_execute under the queue mutex: decide to wait on
\* not_empty (the mutex stays held until pthread_cond_wait), or return 1 on
\* shutdown with an empty queue (the worker breaks out of its loop), or detach
\* the head, count it active, signal not_full, release the mutex and call the
\* task's function
TaskQueuePopAndExecute(w) ==
    /\ wpc[w] = "pop"
    /\ pthread_mutex_lock(qmutex)
    /\ IF task_queue_pop_waits(queue, pool.shutdown)
       THEN /\ wpc' = [wpc EXCEPT ![w] = "pop_block"]
            /\ qmutex' = w
            /\ pev' = NoEv
            /\ UNCHANGED <<queue, tasks, ppc, wtask>>
       ELSE IF task_queue_pop_exits(queue, pool.shutdown)
       THEN /\ wpc' = [wpc EXCEPT ![w] = "exited"]
            /\ pev' = NoEv
            /\ UNCHANGED <<queue, tasks, ppc, wtask, qmutex>>
       ELSE IF queue.items = <<>>
       THEN /\ wpc' = [wpc EXCEPT ![w] = "loop"]
            /\ pev' = NoEv
            /\ UNCHANGED <<queue, tasks, ppc, wtask, qmutex>>
       ELSE LET task == task_queue_detach(queue).task
            IN /\ queue' = [queue EXCEPT !.items = task_queue_detach(queue).items,
                                         !.count = @ - 1,
                                         !.total_dequeued = @ + 1,
                                         !.total_processed = @ + 1,
                                         !.active_tasks = @ + 1]
               /\ ppc' \in (IF queue.max_count > 0
                            THEN pthread_cond_signal(ppc, "push_wait", "push")
                            ELSE {ppc})
               /\ pev' = (IF queue.max_count > 0 THEN Signalled("not_full", TRUE) ELSE NoEv)
               /\ wtask' = [wtask EXCEPT ![w] = task]
               /\ tasks' = [tasks EXCEPT ![task].st = "running", ![task].nrun = @ + 1]
               /\ wpc' = [wpc EXCEPT ![w] = "run"]
               /\ UNCHANGED qmutex
    /\ UNCHANGED <<pool, ntasks, accepted, ptask, mpc, wsnap>>
    /\ Locks(w, IF task_queue_pop_waits(queue, pool.shutdown)
                 THEN <<Lk(QueueMutex)>> ELSE queue_section)
    /\ UNCHANGED hvars

\* task_queue_pop_and_execute outside the mutex: the function returns, then
\* _task_destroy(task)
TaskReturnAndDestroy(w) ==
    /\ wpc[w] = "run"
    /\ tasks' = _task_destroy([tasks EXCEPT ![wtask[w]].st = "returned"], wtask[w])
    /\ wpc' = [wpc EXCEPT ![w] = "finish"]
    /\ pev' = NoEv
    /\ UNCHANGED <<pool, queue, ntasks, accepted, ppc, ptask, wtask, mpc, wsnap, qmutex>>
    /\ Locks(w, <<>>)
    /\ UNCHANGED hvars

\* task_queue_pop_and_execute, the second critical section: active_tasks--,
\* broadcast all_done when nothing is queued and nothing is active; return 0
TaskQueueFinish(w) ==
    /\ wpc[w] = "finish"
    /\ pthread_mutex_lock(qmutex)
    /\ queue' = task_queue_finish(queue)
    /\ IF queue'.count = 0 /\ queue'.active_tasks = 0
       THEN /\ mpc' = (IF mpc = "wa_wait" THEN "wa_check" ELSE mpc)
            /\ pev' = Signalled("all_done", TRUE)
       ELSE /\ pev' = NoEv
            /\ UNCHANGED mpc
    /\ wpc' = [wpc EXCEPT ![w] = "loop"]
    /\ wtask' = [wtask EXCEPT ![w] = NULL]
    /\ UNCHANGED <<pool, tasks, ntasks, accepted, ppc, ptask, wsnap, qmutex>>
    /\ Locks(w, queue_section)
    /\ UNCHANGED hvars

\* thread_pool_wait_all is called
ThreadPoolWaitAll ==
    /\ mpc \in {"idle", "waited"}
    /\ wsnap' = accepted
    /\ mpc' = "wa_check"
    /\ pev' = NoEv
    /\ UNCHANGED <<pool, queue, tasks, ntasks, accepted, ppc, ptask, wpc, wtask, qmutex>>
    /\ Locks(Main, <<>>)
    /\ UNCHANGED hvars

\* task_queue_wait_empty under the queue mutex: decide to wait on all_done
\* (the mutex stays held until pthread_cond_wait) or return
TaskQueueWaitEmpty ==
    /\ mpc = "wa_check"
    /\ pthread_mutex_lock(qmutex)
    /\ IF task_queue_busy(queue)
       THEN /\ mpc' = "wa_block"
            /\ qmutex' = Main
            /\ pev' = NoEv
       ELSE /\ mpc' = "waited"
            /\ pev' = Returned("wait_all", 0)
            /\ UNCHANGED qmutex
    /\ UNCHANGED <<pool, queue, tasks, ntasks, accepted, ppc, ptask, wpc, wtask, wsnap>>
    /\ Locks(Main, IF task_queue_busy(queue) THEN <<Lk(QueueMutex)>> ELSE queue_section)
    /\ UNCHANGED hvars

\* thread_pool_destroy is called: state = STOPPING and shutdown = true under
\* the state lock
ThreadPoolDestroyStop ==
    /\ mpc \in {"idle", "waited"}
    /\ pool' = [pool EXCEPT !.state = "STOPPING", !.shutdown = TRUE]
    /\ wsnap' = accepted
    /\ mpc' = "d_wake"
    /\ pev' = NoEv
    /\ UNCHANGED <<queue, tasks, ntasks, accepted, ppc, ptask, wpc, wtask, qmutex>>
    /\ Locks(Main, state_section)
    /\ UNCHANGED hvars

\* thread_pool_destroy: broadcast not_empty under the queue mutex
ThreadPoolDestroyWake ==
    /\ mpc = "d_wake"
    /\ pthread_mutex_lock(qmutex)
    /\ wpc' = pthread_cond_broadcast(wpc, "pop_wait", "pop")
    /\ mpc' = "d_join"
    /\ pev' = Signalled("not_empty", TRUE)
    /\ UNCHANGED <<pool, queue, tasks, ntasks, accepted, ppc, ptask, wtask, wsnap, qmutex>>
    /\ Locks(Main, queue_section)
    /\ UNCHANGED hvars

\* thread_pool_destroy: every worker below num_threads is joined, then
\* task_queue_destroy (under the queue mutex the tasks still queued are
\* destroyed and the four conditions broadcast, then the queue is freed) and
\* state = STOPPED
ThreadPoolDestroyJoin ==
    /\ mpc = "d_join"
    /\ \A w \in Threads(pool) : wpc[w] = "exited"
    /\ pthread_mutex_lock(qmutex)
    /\ tasks' = task_queue_drain(tasks, queue.items)
    /\ queue' = [queue EXCEPT !.items = <<>>, !.alive = FALSE]
    /\ ppc' = pthread_cond_broadcast(ppc, "push_wait", "push")
    /\ pool' = [pool EXCEPT !.state = "STOPPED"]
    /\ mpc' = "d_free"
    /\ pev' = Signalled("all", TRUE)
    /\ UNCHANGED <<ntasks, accepted, ptask, wpc, wtask, wsnap, qmutex>>
    /\ Locks(Main, queue_section \o state_section)
    /\ UNCHANGED hvars

\* thread_pool_destroy: the state lock and condition are destroyed and the
\* pool is freed
ThreadPoolDestroyFree ==
    /\ mpc = "d_free"
    /\ pool' = [pool EXCEPT !.alive = FALSE]
    /\ mpc' = "destroyed"
    /\ pev' = Returned("destroy", 0)
    /\ UNCHANGED <<queue, tasks, ntasks, accepted, ppc, ptask, wpc, wtask, wsnap, qmutex>>
    /\ Locks(Main, <<>>)
    /\ UNCHANGED hvars

\* pthread_cond_wait may return without a signal: the caller takes the mutex
\* and tests its loop condition again
SpuriousWakeup ==
    /\ \/ \E p \in Producers : /\ ppc[p] = "push_wait"
                               /\ ppc' = [ppc EXCEPT ![p] = "push"]
                               /\ Locks(p, <<>>)
                               /\ UNCHANGED <<wpc, mpc>>
       \/ \E w \in Workers : /\ wpc[w] = "pop_wait"
                             /\ wpc' = [wpc EXCEPT ![w] = "pop"]
                             /\ Locks(w, <<>>)
                             /\ UNCHANGED <<ppc, mpc>>
       \/ /\ mpc = "wa_wait"
          /\ mpc' = "wa_check"
          /\ Locks(Main, <<>>)
          /\ UNCHANGED <<ppc, wpc>>
    /\ pev' = NoEv
    /\ UNCHANGED <<pool, queue, tasks, ntasks, accepted, ptask, wtask, wsnap, qmutex>>
    /\ UNCHANGED hvars

\* the workers that keep a pointer into the old thread_infos array when the
\* realloc of a resize moved it: those running at the call
realloc_moved(pl, pc, moved) ==
    IF moved THEN pl.dangling \cup {u \in Threads(pl) : pc[u] \notin {"unborn", "exited"}}
    ELSE pl.dangling

\* thread_pool_resize(pool, new_size) with 0 < new_size < num_threads,
\* _thread_pool_shrink: should_exit = true for the trailing workers under the
\* state lock
ThreadPoolShrinkMark ==
    /\ mpc \in {"idle", "waited"}
    /\ \E new_size \in 1 .. pool.num_threads - 1 :
          pool' = [pool EXCEPT !.should_exit =
                      [w \in Workers |-> IF Index[w] >= new_size /\ Index[w] < pool.num_threads
                                         THEN TRUE ELSE pool.should_exit[w]]]
    /\ mpc' = "s_wake"
    /\ pev' = NoEv
    /\ UNCHANGED <<queue, tasks, ntasks, accepted, ppc, ptask, wpc, wtask, wsnap, qmutex>>
    /\ Locks(Main, state_section \o state_section)
    /\ UNCHANGED hvars

\* _thread_pool_shrink: broadcast not_empty under the queue mutex
ThreadPoolShrinkWake ==
    /\ mpc = "s_wake"
    /\ pthread_mutex_lock(qmutex)
    /\ wpc' = pthread_cond_broadcast(wpc, "pop_wait", "pop")
    /\ mpc' = "s_join"
    /\ pev' = Signalled("not_empty", TRUE)
    /\ UNCHANGED <<pool, queue, tasks, ntasks, accepted, ppc, ptask, wtask, wsnap, qmutex>>
    /\ Locks(Main, queue_section)
    /\ UNCHANGED hvars

\* _thread_pool_shrink: the trailing workers are joined, num_threads =
\* new_size under the state lock, thread_infos is realloc'ed to the smaller
\* size (moved or not), return 0
ThreadPoolShrinkJoin ==
    /\ mpc = "s_join"
    /\ \A w \in Trailing(pool) : wpc[w] = "exited"
    /\ \E moved \in BOOLEAN :
          pool' = [pool EXCEPT !.num_threads = @ - Cardinality(Trailing(pool)),
                               !.dangling = realloc_moved(pool, wpc, moved)]
    /\ mpc' = "idle"
    /\ pev' = Returned("resize", 0)
    /\ UNCHANGED <<queue, tasks, ntasks, accepted, ppc, ptask, wpc, wtask, wsnap, qmutex>>
    /\ Locks(Main, state_section)
    /\ UNCHANGED hvars

\* thread_pool_resize(pool, new_size) with new_size > num_threads,
\* _thread_pool_expand, all under the state lock: a realloc fails (return -1);
\* else thread_infos was moved by its realloc or not, and the worker of index
\* num_threads is spawned (num_threads = new_size, return 0), or its spawn
\* fails (rollback with nothing to join, return -1), or it is spawned and
\* the spawn of the next index fails ("partial": should_exit = true for it).
\* A rollback releases the state lock and broadcasts not_empty without
\* taking the queue mutex, then joins.
ThreadPoolExpand ==
    /\ mpc \in {"idle", "waited"}
    /\ pool.num_threads < Cardinality(Workers)
    /\ \E w \in Workers, outcome \in {"nomem", "spawned", "rollback", "partial"},
          moved \in BOOLEAN :
          /\ Index[w] = pool.num_threads
          /\ IF outcome = "nomem"
             THEN /\ ~moved
                  /\ pev' = Returned("resize", -1)
                  /\ Locks(Main, state_section \o state_section)
                  /\ UNCHANGED <<pool, wpc, wtask, mpc>>
             ELSE IF outcome = "spawned"
             THEN /\ pool' = [pool EXCEPT !.should_exit[w] = FALSE, !.num_threads = @ + 1,
                                          !.dangling = realloc_moved(pool, wpc, moved) \ {w}]
                  /\ wpc' = [wpc EXCEPT ![w] = "loop"]
                  /\ wtask' = [wtask EXCEPT ![w] = NULL]
                  /\ pev' = Returned("resize", 0)
                  /\ Locks(Main, state_section \o state_section)
                  /\ UNCHANGED mpc
             ELSE IF outcome = "rollback"
             THEN /\ pool' = [pool EXCEPT !.should_exit[w] = FALSE,
                                          !.dangling = realloc_moved(pool, wpc, moved)]
                  /\ wpc' = pthread_cond_broadcast(wpc, "pop_wait", "pop")
                  /\ pev' = [cv |-> "not_empty", held |-> FALSE, op |-> "resize", val |-> -1]
                  /\ Locks(Main, state_section \o state_section \o state_section)
                  /\ UNCHANGED <<wtask, mpc>>
             ELSE /\ pool' = [pool EXCEPT !.should_exit[w] = TRUE,
                                          !.dangling = realloc_moved(pool, wpc, moved) \ {w}]
                  /\ wpc' = [pthread_cond_broadcast(wpc, "pop_wait", "pop") EXCEPT ![w] = "loop"]
                  /\ wtask' = [wtask EXCEPT ![w] = NULL]
                  /\ mpc' = "e_join"
                  /\ pev' = Signalled("not_empty", FALSE)
                  /\ Locks(Main, state_section \o state_section)
    /\ UNCHANGED <<queue, tasks, ntasks, accepted, ppc, ptask, wsnap, qmutex>>
    /\ UNCHANGED hvars

\* the workers a failed _thread_pool_expand spawned: num_threads is still
\* the size before the call
Spawned(pl, pc) == {w \in Workers : Index[w] >= pl.num_threads /\ pc[w] # "unborn"}

\* _thread_pool_expand, the end of the rollback: the workers this call
\* spawned are joined, num_threads = cur_size under the state lock, return -1
ThreadPoolExpandJoin ==
    /\ mpc = "e_join"
    /\ \A w \in Spawned(pool, wpc) : wpc[w] = "exited"
    /\ mpc' = "idle"
    /\ pev' = Returned("resize", -1)
    /\ UNCHANGED <<pool, queue, tasks, ntasks, accepted, ppc, ptask, wpc, wtask, wsnap, qmutex>>
    /\ Locks(Main, state_section)
    /\ UNCHANGED hvars

\* thread_pool_create, the spawn loop: the next worker is spawned, or the
\* spawn fails: shutdown = true and a broadcast of not_empty, both without
\* any lock, before the workers spawned so far are joined
ThreadPoolCreateSpawn ==
    /\ mpc = "create"
    /\ ~thread_pool_create_spawned(wpc)
    /\ \E w \in Unborn(wpc), ok \in BOOLEAN :
          /\ \A u \in Unborn(wpc) : Index[w] <= Index[u]
          /\ IF ok
             THEN /\ wpc' = [wpc EXCEPT ![w] = "loop"]
                  /\ pev' = NoEv
                  /\ UNCHANGED <<pool, mpc>>
             ELSE /\ pool' = [pool EXCEPT !.shutdown = TRUE]
                  /\ wpc' = pthread_cond_broadcast(wpc, "pop_wait", "pop")
                  /\ mpc' = "c_join"
                  /\ pev' = Signalled("not_empty", FALSE)
    /\ UNCHANGED <<queue, tasks, ntasks, accepted, ppc, ptask, wtask, wsnap, qmutex>>
    /\ Locks(Main, <<>>)
    /\ UNCHANGED hvars

\* thread_pool_create after the spawn loop: state = RUNNING under the state
\* lock, the pool is returned
ThreadPoolCreatePublish ==
    /\ mpc = "create"
    /\ thread_pool_create_spawned(wpc)
    /\ pool' = [pool EXCEPT !.state = "RUNNING"]
    /\ mpc' = "idle"
    /\ pev' = Returned("create", 0)
    /\ UNCHANGED <<queue, tasks, ntasks, accepted, ppc, ptask, wpc, wtask, wsnap, qmutex>>
    /\ Locks(Main, state_section)
    /\ UNCHANGED hvars

\* thread_pool_create after a failed spawn: the workers spawned so far are
\* joined, task_queue_destroy, the pool is freed and NULL returned
ThreadPoolCreateTeardown ==
    /\ mpc = "c_join"
    /\ \A w \in Workers \ Unborn(wpc) : wpc[w] = "exited"
    /\ pthread_mutex_lock(qmutex)
    /\ tasks' = task_queue_drain(tasks, queue.items)
    /\ queue' = [queue EXCEPT !.items = <<>>, !.alive = FALSE]
    /\ ppc' = pthread_cond_broadcast(ppc, "push_wait", "push")
    /\ pool' = [pool EXCEPT !.alive = FALSE]
    /\ mpc' = "create_failed"
    /\ pev' = [cv |-> "all", held |-> TRUE, op |-> "create", val |-> NULL]
    /\ UNCHANGED <<ntasks, accepted, ptask, wpc, wtask, wsnap, qmutex>>
    /\ Locks(Main, queue_section)
    /\ UNCHANGED hvars

\* task_queue_pop(queue, &shutdown) by a consumer that uses the queue without
\* a pool, under the queue mutex: decide to wait on not_empty (the mutex
\* stays held until pthread_cond_wait), or return NULL on shutdown with an
\* empty queue, or detach the head, count it, broadcast cond_empty when the
\* queue became empty, signal not_full, unlock and return the task.
\* active_tasks is not touched and all_done is not signalled.
TaskQueuePop(w) ==
    /\ wpc[w] = "pop"
    /\ pthread_mutex_lock(qmutex)
    /\ IF task_queue_pop_waits(queue, pool.shutdown)
       THEN /\ wpc' = [wpc EXCEPT ![w] = "pop_block"]
            /\ qmutex' = w
            /\ pev' = NoEv
            /\ UNCHANGED <<queue, tasks, ppc, wtask>>
       ELSE IF task_queue_pop_exits(queue, pool.shutdown)
       THEN /\ wpc' = [wpc EXCEPT ![w] = "exited"]
            /\ pev' = Returned("pop", NULL)
            /\ UNCHANGED <<queue, tasks, ppc, wtask, qmutex>>
       ELSE LET task == task_queue_detach(queue).task
            IN /\ queue' = [queue EXCEPT !.items = task_queue_detach(queue).items,
                                         !.count = @ - 1,
                                         !.total_dequeued = @ + 1,
                                         !.total_processed = @ + 1]
               /\ ppc' \in (IF queue.max_count > 0
                            THEN pthread_cond_signal(ppc, "push_wait", "push")
                            ELSE {ppc})
               /\ pev' = (IF queue'.count = 0 THEN Signalled("empty", TRUE)
                          ELSE IF queue.max_count > 0 THEN Signalled("not_full", TRUE)
                          ELSE NoEv)
               /\ wtask' = [wtask EXCEPT ![w] = task]
               /\ tasks' = [tasks EXCEPT ![task].st = "running", ![task].nrun = @ + 1]
               /\ wpc' = [wpc EXCEPT ![w] = "popped"]
               /\ UNCHANGED qmutex
    /\ Locks(w, IF task_queue_pop_waits(queue, pool.shutdown)
                 THEN <<Lk(QueueMutex)>> ELSE queue_section)
    /\ UNCHANGED <<pool, ntasks, accepted, ptask, mpc, wsnap>>
    /\ UNCHANGED hvars

\* the consumer with the task it popped: the function returns, free(task),
\* and it pops again
TaskRunAndFree(w) ==
    /\ wpc[w] = "popped"
    /\ tasks' = [tasks EXCEPT ![wtask[w]].st = "freed"]
    /\ wtask' = [wtask EXCEPT ![w] = NULL]
    /\ wpc' = [wpc EXCEPT ![w] = "pop"]
    /\ pev' = NoEv
    /\ Locks(w, <<>>)
    /\ UNCHANGED <<pool, queue, ntasks, accepted, ppc, ptask, mpc, wsnap, qmutex>>
    /\ UNCHANGED hvars

\* a queue after task_queue_create(max_count), used without a pool's workers:
\* the consumer threads are about to call task_queue_pop
QueueInitWith(max_count) ==
    /\ pool = [state |-> "RUNNING", shutdown |-> FALSE,
               should_exit |-> [w \in Workers |-> FALSE],
               num_threads |-> Cardinality(Workers), dangling |-> {}, alive |-> TRUE]
    /\ queue = task_queue_create(max_count)
    /\ tasks = [id \in TaskIds |-> NewTask]
    /\ ntasks = 0
    /\ accepted = {}
    /\ ppc = [p \in Producers |-> "idle"]
    /\ ptask = [p \in Producers |-> NULL]
    /\ wpc = [w \in Workers |-> "pop"]
    /\ wtask = [w \in Workers |-> NULL]
    /\ mpc = "idle"
    /\ wsnap = {}
    /\ qmutex = NoThread
    /\ state_lock = NoThread
    /\ pheld = {}
    /\ pev = NoEv

\* the pool when thread_pool_create reaches its spawn loop: CREATED, the queue
\* created, no worker spawned yet
PoolCreateWith(max_count) ==
    /\ pool = [state |-> "CREATED", shutdown |-> FALSE,
               should_exit |-> [w \in Workers |-> FALSE],
               num_threads |-> Cardinality(Workers), dangling |-> {}, alive |-> TRUE]
    /\ queue = task_queue_create(max_count)
    /\ tasks = [id \in TaskIds |-> NewTask]
    /\ ntasks = 0
    /\ accepted = {}
    /\ ppc = [p \in Producers |-> "idle"]
    /\ ptask = [p \in Producers |-> NULL]
    /\ wpc = [w \in Workers |-> "unborn"]
    /\ wtask = [w \in Workers |-> NULL]
    /\ mpc = "create"
    /\ wsnap = {}
    /\ qmutex = NoThread
    /\ state_lock = NoThread
    /\ pheld = {}
    /\ pev = NoEv

\* the pool after thread_pool_create(|Workers|, max_count) returned it RUNNING
PoolInitWith(max_count) ==
    /\ pool = [state |-> "RUNNING", shutdown |-> FALSE,
               should_exit |-> [w \in Workers |-> FALSE],
               num_threads |-> Cardinality(Workers), dangling |-> {}, alive |-> TRUE]
    /\ queue = task_queue_create(max_count)
    /\ tasks = [id \in TaskIds |-> NewTask]
    /\ ntasks = 0
    /\ accepted = {}
    /\ ppc = [p \in Producers |-> "idle"]
    /\ ptask = [p \in Producers |-> NULL]
    /\ wpc = [w \in Workers |-> "loop"]
    /\ wtask = [w \in Workers |-> NULL]
    /\ mpc = "idle"
    /\ wsnap = {}
    /\ qmutex = NoThread
    /\ state_lock = NoThread
    /\ pheld = {}
    /\ pev = NoEv

PoolInit == \E max_count \in 0 .. QueueSize : PoolInitWith(max_count)

\* the steps of the producers
ProducerNext == \E p \in Producers : ThreadPoolSubmit(p) \/ TaskQueuePush(p)

\* the steps of the workers
WorkerNext ==
    \E w \in Workers :
        \/ WorkThreadLoop(w)
        \/ TaskQueuePopAndExecute(w)
        \/ TaskReturnAndDestroy(w)
        \/ TaskQueueFinish(w)

\* the controlling thread waits for the tasks and destroys the pool
PoolNext ==
    \/ ProducerNext
    \/ WorkerNext
    \/ PthreadCondWait
    \/ ThreadPoolWaitAll
    \/ TaskQueueWaitEmpty
    \/ ThreadPoolDestroyStop
    \/ ThreadPoolDestroyWake
    \/ ThreadPoolDestroyJoin
    \/ ThreadPoolDestroyFree
    \/ SpuriousWakeup

\* the controlling thread also creates the pool and resizes it
ResizeNext ==
    \/ ThreadPoolShrinkMark
    \/ ThreadPoolShrinkWake
    \/ ThreadPoolShrinkJoin
    \/ ThreadPoolExpand
    \/ ThreadPoolExpandJoin

CreateNext ==
    \/ ThreadPoolCreateSpawn
    \/ ThreadPoolCreatePublish
    \/ ThreadPoolCreateTeardown

LifeNext == PoolNext \/ ResizeNext \/ CreateNext

-----------------------------------------------------------------------------
(* Specifications                                                          *)

InitHeap == HeapInitWith(PairOff) /\ PoolInitWith(QueueSize)
InitHeapPair == HeapInitWith(NoPair) /\ PoolInitWith(QueueSize)
InitPool == PoolInit /\ HeapInitAt(PAGE_SIZE, PairOff)
InitHeapApi == HeapInitAt(2 * PAGE_SIZE, PairOff) /\ PoolInitWith(QueueSize)
InitFacade == HeapInitAt(PAGE_SIZE, PairOff) /\ PoolInitWith(QueueSize)
InitRun == PoolInitWith(QueueSize) /\ HeapInitAt(PAGE_SIZE, PairOff)
InitLife == PoolCreateWith(QueueSize) /\ HeapInitAt(PAGE_SIZE, PairOff)

\* the allocator under two concurrent callers; the pool stays as created
SpecHeap == InitHeap /\ [][HeapNext]_vars

\* the same, keeping the history of directly repeated myalloc/myfree pairs
SpecHeapPair == InitHeapPair /\ [][HeapNext]_vars

\* the allocator with a second caller that uses the other operations of heap.h
SpecHeapApi == InitHeapApi /\ [][HeapApiNext]_vars

\* heap_find_free_block applied to the lists one caller builds, under each
\* strategy: the sizes asked for
FindSizes == {PAGE_SIZE, 2 * PAGE_SIZE, POOL_INIT_SIZE}
FindNext ==
    \/ HeapCallsOf("h1", PageSizes)
    \/ \E size \in FindSizes : HeapFindFreeBlock("h2", size)
InitFind ==
    /\ \E strategy \in Strategies : HeapInitStrategy(2 * PAGE_SIZE, strategy)
    /\ PoolInitWith(QueueSize)
SpecFind == InitFind /\ [][FindNext]_vars

\* the allocator from its uninitialised state on, under two callers
InitFirst == AllocatorUninitialized /\ PoolInitWith(QueueSize)
SpecInit == InitFirst /\ [][InitNext]_vars

\* the allocator behind its facade, with cleanup and re-initialisation
SpecFacade == InitFacade /\ [][FacadeNext]_vars

\* the pool under two producers, two workers and a controlling thread; the
\* allocator stays as initialised
SpecPool == InitPool /\ [][PoolNext]_vars

\* the pool from thread_pool_create on, with resizes
SpecLife == InitLife /\ [][LifeNext]_vars

\* the pool with one producer and a controlling thread that destroys it
StopNext ==
    \/ ThreadPoolSubmit("p1")
    \/ TaskQueuePush("p1")
    \/ WorkerNext
    \/ PthreadCondWait
    \/ ThreadPoolDestroyStop
    \/ ThreadPoolDestroyWake
    \/ ThreadPoolDestroyJoin
    \/ ThreadPoolDestroyFree
    \/ SpuriousWakeup

\* the pool with one producer and a controlling thread that calls wait_all
WaitNext ==
    \/ ThreadPoolSubmit("p1")
    \/ TaskQueuePush("p1")
    \/ WorkerNext
    \/ PthreadCondWait
    \/ ThreadPoolWaitAll
    \/ TaskQueueWaitEmpty
    \/ SpuriousWakeup

\* the pool with one producer and a controlling thread that resizes it
ShrinkNext ==
    \/ ThreadPoolSubmit("p1")
    \/ TaskQueuePush("p1")
    \/ WorkerNext
    \/ PthreadCondWait
    \/ ResizeNext
    \/ SpuriousWakeup

\* scheduling: a worker that can take a step takes it (a task's function
\* returns), a thread that tries to lock the queue mutex gets it if it is
\* free again and again, pthread_cond_wait blocks, and a submit that created
\* its task goes on to push it; new calls of submit and spurious wakeups may
\* or may not happen
WorkerFairness ==
    /\ \A w \in Workers :
          /\ WF_vars(WorkThreadLoop(w))
          /\ SF_vars(TaskQueuePopAndExecute(w))
          /\ WF_vars(TaskReturnAndDestroy(w))
          /\ SF_vars(TaskQueueFinish(w))
    /\ WF_vars(PthreadCondWait)
    /\ SF_vars(TaskQueuePush("p1"))

\* the controlling thread goes on with the call it is in
StopFairness ==
    /\ SF_vars(ThreadPoolDestroyWake)
    /\ SF_vars(ThreadPoolDestroyJoin)
    /\ WF_vars(ThreadPoolDestroyFree)

WaitFairness == SF_vars(TaskQueueWaitEmpty)

ShrinkFairness ==
    /\ SF_vars(ThreadPoolShrinkWake)
    /\ WF_vars(ThreadPoolShrinkJoin)
    /\ WF_vars(ThreadPoolExpandJoin)

\* the queue with producers, consumers that call task_queue_pop, and a thread
\* that calls task_queue_wait_empty
QueueNext ==
    \/ ProducerNext
    \/ \E w \in Workers : TaskQueuePop(w) \/ TaskRunAndFree(w)
    \/ PthreadCondWait
    \/ ThreadPoolWaitAll
    \/ TaskQueueWaitEmpty
    \/ SpuriousWakeup

\* a consumer that can take a step takes it, and the threads that try to lock
\* the queue mutex get it
QueueFairness ==
    /\ \A w \in Workers : SF_vars(TaskQueuePop(w)) /\ WF_vars(TaskRunAndFree(w))
    /\ \A p \in Producers : SF_vars(TaskQueuePush(p))
    /\ WF_vars(PthreadCondWait)
    /\ SF_vars(TaskQueueWaitEmpty)

InitQueue == QueueInitWith(QueueSize) /\ HeapInitAt(PAGE_SIZE, PairOff)
SpecQueueFair == InitQueue /\ [][QueueNext]_vars /\ QueueFairness

\* the pool with two producers that compete for the bounded queue, and no
\* controlling thread
BackNext ==
    \/ ProducerNext
    \/ WorkerNext
    \/ PthreadCondWait
    \/ SpuriousWakeup

\* both producers get the queue mutex when they try again and again
BackFairness == SF_vars(TaskQueuePush("p2"))

SpecBackFair == InitRun /\ [][BackNext]_vars /\ WorkerFairness /\ BackFairness

\* the pool with one producer and a controlling thread that shrinks it
TrimNext ==
    \/ ThreadPoolSubmit("p1")
    \/ TaskQueuePush("p1")
    \/ WorkerNext
    \/ PthreadCondWait
    \/ ThreadPoolShrinkMark
    \/ ThreadPoolShrinkWake
    \/ ThreadPoolShrinkJoin
    \/ SpuriousWakeup

TrimFairness == SF_vars(ThreadPoolShrinkWake) /\ WF_vars(ThreadPoolShrinkJoin)

SpecTrimFair == InitRun /\ [][TrimNext]_vars /\ WorkerFairness /\ TrimFairness

SpecStopFair == InitRun /\ [][StopNext]_vars /\ WorkerFairness /\ StopFairness
SpecWaitFair == InitRun /\ [][WaitNext]_vars /\ WorkerFairness /\ WaitFairness
SpecShrinkFair == InitRun /\ [][ShrinkNext]_vars /\ WorkerFairness /\ ShrinkFairness

-----------------------------------------------------------------------------
(* Properties                                                              *)

\* no allocator call is in progress
Quiescent == \A t \in HThreads : hpc[t] = "idle"

\* the pairs (b, b.next) of the block list
Links == {<<b, mem[b].next>> : b \in {x \in Range(Chain(mem, g_heap.blocks_head)) : mem[x].next # NULL}}

\* C1: in every reachable heap state, under any interleaving of the two
\* callers and for every placement of the extensions, the ranges
\* [p, p + ALIGN_UP(s, 8)) of two distinct live allocations are disjoint.
C1_LiveAllocationsDisjoint ==
    \A a, b \in allocs :
        a # b => (a.addr + a.size <= b.addr \/ b.addr + b.size <= a.addr)

\* C1, the case: three allocations are live, one of them in an extension of
\* the heap, while a caller is inside a call
C1_ThreeLiveWithExtension ==
    /\ Cardinality(allocs) >= 3
    /\ g_vm_mgr.region_count >= 2
    /\ \E t \in HThreads : hpc[t] # "idle"

\* C2: thread_pool_wait_all / task_queue_wait_empty returns only from a state
\* in which count = 0 and active_tasks = 0; every task whose submit had
\* returned when wait_all was called has then run its function once and, if
\* it has one, its cleanup once, and its record is freed.
C2_WaitAllReturnsQuiescent ==
    [][(mpc = "wa_check" /\ mpc' = "waited") =>
          /\ queue.count = 0
          /\ queue.active_tasks = 0
          /\ \A id \in wsnap : /\ tasks[id].st = "freed"
                               /\ tasks[id].nrun = 1
                               /\ tasks[id].nclean = (IF tasks[id].cleanup THEN 1 ELSE 0)]_vars

\* C2, the case: wait_all has returned after at least two tasks were accepted
\* before its call
C2_WaitAllReturned ==
    /\ mpc = "waited"
    /\ Cardinality(wsnap) >= 2

\* C3: for every accepted task with a cleanup, cleanup is called at most once,
\* exactly when the record is freed: after the function returned (the worker's
\* path, the function having run once) or while the task was still queued
\* (task_queue_destroy, the function never run); never while the function
\* runs, and once the queue is destroyed no accepted task is left without it.
C3_CleanupExactlyOnce ==
    \A id \in accepted :
        LET r == tasks[id]
        IN r.cleanup =>
              /\ r.nclean <= 1
              /\ (r.st = "freed") = (r.nclean = 1)
              /\ (r.nclean = 1 => r.at \in {"returned", "queued"})
              /\ (r.at = "returned" => r.nrun = 1)
              /\ (r.at = "queued" => r.nrun = 0)
              /\ (r.st = "running" => r.nclean = 0)
              /\ (mpc = "destroyed" => r.st = "freed")

\* C3, the case: the pool is destroyed, one task with a cleanup was cleaned by
\* its worker and another by task_queue_destroy
C3_BothCleanupPaths ==
    /\ mpc = "destroyed"
    /\ \E i, j \in accepted : /\ tasks[i].cleanup /\ tasks[i].at = "returned"
                              /\ tasks[j].cleanup /\ tasks[j].at = "queued"

\* C4: for a queue created with max_count > 0, count <= max_count in every
\* reachable state.
C4_CountWithinMax ==
    queue.max_count > 0 => queue.count <= queue.max_count

\* C4, the case: the bounded queue is full and a producer waits on not_full
C4_ProducerWaitsOnFull ==
    /\ queue.max_count > 0
    /\ queue.count = queue.max_count
    /\ \E p \in Producers : ppc[p] = "push_wait"

\* C5: after any sequence of successful myalloc and myfree calls, whatever
\* address the extensions got, heap_verify returns 0.
C5_VerifyAfterSuccess ==
    (Quiescent /\ (hret.op = "myalloc" => hret.val # NULL) /\ (hret.op = "myfree" => hret.val = 0))
        => heap_verify(mem, g_heap) = 0

\* C6: between operations the blocks along next have strictly increasing
\* start addresses and non-overlapping ranges, and no two consecutive blocks
\* are both FREE and address-adjacent.
C6_SortedAndMerged ==
    Quiescent =>
        \A l \in Links :
            /\ mem[l[1]].start_addr + mem[l[1]].size <= mem[l[2]].start_addr
            /\ ~(/\ mem[l[1]].state = "FREE"
                 /\ mem[l[2]].state = "FREE"
                 /\ mem[l[1]].start_addr + mem[l[1]].size = mem[l[2]].start_addr)

\* C7: every non-null address myalloc returns is a multiple of 8, and every
\* block of the list has a start address and a size that are multiples of 8,
\* the size at least 8.
C7_Aligned8 ==
    /\ (hret.op = "myalloc" /\ hret.val # NULL) => hret.val % 8 = 0
    /\ \A b \in Range(Chain(mem, g_heap.blocks_head)) :
          /\ mem[b].start_addr % 8 = 0
          /\ mem[b].size % 8 = 0
          /\ mem[b].size >= 8

\* C7, the case: myalloc just returned an address and the list holds a block
\* of 8 bytes split off for a request of 1 byte
C7_SmallBlockReturned ==
    /\ hret.op = "myalloc" /\ hret.val # NULL
    /\ \E b \in Range(Chain(mem, g_heap.blocks_head)) :
          mem[b].size = 8 /\ mem[b].state = "ALLOCATED" /\ mem[b].start_addr = hret.val

\* C8: with the lock enabled, once every caller has freed every address it
\* was given, total_allocated = 0, no block is ALLOCATED and heap_verify
\* returns 0.
C8_AllFreedIsClean ==
    (Quiescent /\ allocs = {}) =>
        /\ g_heap.total_allocated = 0
        /\ \A b \in Range(Chain(mem, g_heap.blocks_head)) : mem[b].state # "ALLOCATED"
        /\ heap_verify(mem, g_heap) = 0

\* C9: myalloc(s) returning p followed directly by myfree(p) brings
\* total_allocated, the allocated counter allocator_stats reports, back to
\* its value before the pair, also after the pair was repeated.
C9_PairRestoresAllocated ==
    pair.phase = "done" => g_heap.total_allocated = pair.base

\* C9, the case: the pair was repeated MaxRepeat times on a heap that holds
\* other allocations
C9_PairRepeated ==
    /\ pair.phase = "done"
    /\ pair.n = MaxRepeat
    /\ pair.base > 0

\* C10: a myfree that returns non-zero leaves the block records, the list,
\* block_count, total_allocated, total_free, peak_allocated and the
\* reservations as they were, so heap_verify returns 0 after it if it did
\* before; and a myfree that returns 0 was given an address whose block was
\* ALLOCATED (an address in no block and a double free are both refused).
C10_FailedFreeNoEffect ==
    [][/\ (hret'.op = "myfree" /\ hret'.val # 0) =>
              /\ UNCHANGED <<mem, g_heap, g_vm_mgr, allocs>>
              /\ (heap_verify(mem, g_heap) = 0 => heap_verify(mem', g_heap') = 0)
       /\ (hret'.op = "myfree" /\ hret'.val = 0) =>
              \E t \in HThreads : /\ hpc[t] = "free_mark"
                                  /\ hpc'[t] = "idle"
                                  /\ mem[hblk[t]].state = "ALLOCATED"]_vars

\* C10, the case: a myfree was just refused on a heap with live allocations
\* and FREE blocks
C10_FreeRefused ==
    /\ hret.op = "myfree" /\ hret.val # 0
    /\ g_heap.total_allocated > 0
    /\ g_heap.block_count >= 3

\* C11: a refused heap_free / myfree tells the two failure kinds apart by its
\* return code: ERR_INVALID_ADDR when the address lies in no block,
\* ERR_DOUBLE_FREE when the address lies in a block that is already FREE.
C11_DistinctFailureCodes ==
    (hret.op = "myfree" /\ hret.val # 0) =>
        LET block == heap_find_block(mem, g_heap.blocks_head, hret.arg)
        IN /\ (block = NULL => hret.val = ERR_INVALID_ADDR)
           /\ (block # NULL => mem[block].state = "FREE" /\ hret.val = ERR_DOUBLE_FREE)

\* C12: myfree(ptr) returns 0 only when ptr is an address myalloc returned
\* and that was not freed since; for every other non-null ptr, an address
\* strictly inside a live allocation included, it returns -1 and changes no
\* block.
C12_FreeOnlyExact ==
    [][/\ \A t \in HThreads :
              (hpc[t] = "free_mark" /\ hpc'[t] = "idle" /\ hret'.val = 0)
                  => \E r \in allocs : r.addr = harg[t]
       /\ (hret'.op = "myfree" /\ hret'.val # 0) =>
              /\ hret'.val = -1
              /\ \A r \in allocs : r.addr # hret'.arg
              /\ mem' = mem]_vars

\* C13 as stated: in every state of a live queue,
\* total_enqueued = total_dequeued + count + active_tasks.
C13_EnqueuedBalanceWithActive ==
    queue.alive =>
        queue.total_enqueued = queue.total_dequeued + queue.count + queue.active_tasks

\* C13, amended: in every state of a live queue, for any interleaving of
\* pushes and worker pops, total_enqueued = total_dequeued + count; the tasks
\* counted in active_tasks are already counted in total_dequeued.
C13_EnqueuedBalance ==
    queue.alive =>
        /\ queue.total_enqueued = queue.total_dequeued + queue.count
        /\ queue.active_tasks <= queue.total_dequeued

\* C13, the case: tasks are queued while two others are being executed
C13_QueuedAndActive ==
    /\ queue.alive
    /\ queue.count >= 1
    /\ queue.active_tasks = 2

\* C14: the queue is FIFO: a task is never detached from the list while a
\* task appended before it is still queued, under any interleaving of the
\* producers and the workers.
C14_Fifo ==
    \A a, b \in accepted :
        (tasks[a].nrun > 0 /\ tasks[b].st = "queued") => tasks[a].seq < tasks[b].seq

\* C14, the case: the producers appended two tasks in the reverse order of
\* their creation, both were detached and a third task is still queued
C14_TwoDetachedOneQueued ==
    /\ \E a, b \in accepted : /\ a < b /\ tasks[a].seq > tasks[b].seq
                              /\ tasks[a].nrun > 0 /\ tasks[b].nrun > 0
    /\ \E c \in accepted : tasks[c].st = "queued"

C16_ShrinkReturns ==
    (mpc = "s_wake") ~> (mpc = "idle")

\* C17: thread_pool_wait_all, called while the workers keep running and after
\* finitely many submits, eventually returns: the all_done broadcast of the
\* worker that finishes the last task is not lost between the waiter's test
\* and its wait.
C17_WaitAllReturns ==
    (mpc = "wa_check") ~> (mpc = "waited")

\* C17, the case: the waiter holds the mutex between its test and its wait
\* while a worker is about to finish the last task
C17_WaiterAboutToWait ==
    /\ mpc = "wa_block"
    /\ queue.count = 0
    /\ queue.active_tasks = 1
    /\ \E w \in Workers : wpc[w] = "finish"

\* C18: thread_pool_submit leaves for task_queue_push only from a pool that
\* is RUNNING; a submit that returns -1 appended nothing and called neither
\* a function nor a cleanup; a submit that returns 0 appended exactly its one
\* task, not yet run, to the queue (the queue existing).
C18_SubmitByState ==
    [][/\ \A p \in Producers :
              (ppc[p] = "idle" /\ ppc'[p] = "push") => pool.state = "RUNNING"
       /\ (pev'.op = "submit" /\ pev'.val # 0) =>
              /\ pev'.val = -1
              /\ UNCHANGED <<queue, tasks, ntasks, accepted, ppc, ptask>>
       /\ (pev'.op = "submit" /\ pev'.val = 0) =>
              \E p \in Producers :
                  /\ ppc[p] = "push" /\ ppc'[p] = "idle"
                  /\ queue'.items = Append(queue.items, ptask[p])
                  /\ queue'.count = queue.count + 1
                  /\ tasks'[ptask[p]].st = "queued"
                  /\ tasks'[ptask[p]].nrun = 0 /\ tasks'[ptask[p]].nclean = 0
                  /\ \A id \in TaskIds \ {ptask[p]} : tasks'[id] = tasks[id]]_vars

\* C18, the case: a submit was just refused by a pool that is STOPPED, not
\* yet freed, after it had accepted tasks while RUNNING
C18_RefusedWhenStopped ==
    /\ pev = Returned("submit", -1)
    /\ pool.alive
    /\ pool.state = "STOPPED"
    /\ accepted # {}

C20_SignalsUnderMutex ==
    pev.cv # "none" => pev.held

\* the operations of heap.h that walk the list and return in one step
HeapApiOps == {"heap_find_block", "heap_find_free_block", "heap_merge_free_blocks",
               "heap_stats", "heap_verify", "heap_dump"}

\* C22: with locking enabled, every heap operation that reads or modifies the
\* block list (allocate, free, find_block, find_free_block, merge_free_blocks,
\* stats, verify, dump) runs while no other thread is inside an operation on
\* the list, that is while no other thread holds the heap mutex.
C22_ListUnderHeapLock ==
    [][/\ hret'.op \in HeapApiOps => lock = NoThread
       /\ \A t \in HThreads : hpc'[t] # hpc[t] => lock \in {NoThread, t}]_vars

\* C23: a facade operation (myalloc, myfree, allocator_stats,
\* allocator_verify) called on an allocator that is not initialised, as after
\* allocator_cleanup, initialises it lazily instead of failing as not
\* initialised (myalloc and myfree may still fail when the initialisation
\* itself gets no memory).
C23_LazyReinit ==
    [][(/\ ~g_initialized
        /\ hret'.op \in {"_allocator_ensure_initialized", "allocator_stats", "allocator_verify"})
          => g_initialized']_vars

\* C24: myalloc(0) returns NULL and myfree(NULL) returns 0, and neither
\* changes anything in the allocator: no initialisation, no counter, no block,
\* no reservation; so does every repetition.
C24_TrivialCallsNoEffect ==
    [][/\ hret'.op = "myalloc(0)" => hret'.val = NULL
       /\ hret'.op = "myfree(NULL)" => hret'.val = 0
       /\ hret'.op \in {"myalloc(0)", "myfree(NULL)"} =>
             UNCHANGED <<mem, g_heap, g_vm_mgr, g_initialized, lock, allocs>>]_vars

\* C24, the case: myfree(NULL) or myalloc(0) just returned on an allocator
\* that was cleaned up and is still not initialised
C24_TrivialCallAfterCleanup ==
    /\ hret.op \in {"myalloc(0)", "myfree(NULL)"}
    /\ ~g_initialized

\* [lo, hi) lies inside one reservation of the VM manager
InOneReservation(lo, hi) ==
    \E i \in DOMAIN g_vm_mgr.regions :
        /\ g_vm_mgr.regions[i].start_addr <= lo
        /\ hi <= g_vm_mgr.regions[i].start_addr + g_vm_mgr.regions[i].length

\* C25: in every reachable state every block of the list lies entirely inside
\* a single VM reservation, so no allocation is satisfied across two
\* reservations, also when a new reservation is address-adjacent to an older
\* one and both sides become FREE.
C25_NoBlockAcrossReservations ==
    /\ \A b \in Range(Chain(mem, g_heap.blocks_head)) :
          InOneReservation(mem[b].start_addr, mem[b].start_addr + mem[b].size)
    /\ \A a \in allocs : InOneReservation(a.addr, a.addr + a.size)

\* C27: a heap_allocate that fails while it extends the heap (the VM
\* reservation fails, or the block record for it cannot be created) returns
\* NULL, and the block list, block_count, total_allocated, total_free,
\* peak_allocated and the reservation list are as before the call.
C27_ExtensionFailureNoChange ==
    [][(/\ hret'.op = "myalloc" /\ hret'.val = NULL
        /\ hpc' = hpc)
          => UNCHANGED <<mem, g_heap, g_vm_mgr>>]_vars

\* a myalloc has just returned NULL while no block was FREE, after an earlier
\* extension had succeeded: the extension of this call failed
C27_ExtensionFailed ==
    /\ hret.op = "myalloc" /\ hret.val = NULL
    /\ Quiescent
    /\ g_vm_mgr.region_count >= 2
    /\ \A b \in Range(Chain(mem, g_heap.blocks_head)) : mem[b].state = "ALLOCATED"

\* the block of the list m, head that starts at addr (NULL when none does)
BlockAt(m, head, addr) ==
    LET bs == {b \in Range(Chain(m, head)) : m[b].start_addr = addr}
    IN IF bs = {} THEN NULL ELSE CHOOSE b \in bs : TRUE

\* C29: a successful heap_allocate(size) marks ALLOCATED a block of exactly
\* ALIGN_UP(size, 8) bytes at the returned address; a chosen FREE block that
\* was strictly larger has been split at that size and the remainder is the
\* FREE block right after it; total_allocated has grown by ALIGN_UP(size, 8).
C29_AllocateExactSize ==
    [][\A t \in HThreads :
         (/\ hpc[t] = "alloc_mark" /\ hpc'[t] = "idle"
          /\ hret'.op = "myalloc" /\ hret'.val # NULL)
         => LET aligned_size == harg[t]
                chosen == mem[hblk[t]]
                b == BlockAt(mem', g_heap'.blocks_head, hret'.val)
            IN /\ aligned_size \in {ALIGN_UP(size, 8) : size \in Sizes}
               /\ hret'.val = chosen.start_addr
               /\ b # NULL
               /\ mem'[b].state = "ALLOCATED"
               /\ mem'[b].size = aligned_size
               /\ g_heap'.total_allocated = g_heap.total_allocated + aligned_size
               /\ g_heap'.total_free = g_heap.total_free - aligned_size
               /\ chosen.size > aligned_size =>
                     LET r == mem'[b].next
                     IN /\ r # NULL
                        /\ mem'[r].state = "FREE"
                        /\ mem'[r].start_addr = hret'.val + aligned_size
                        /\ mem'[r].size = chosen.size - aligned_size
                        /\ mem'[r].prev = b
                        /\ g_heap'.block_count = g_heap.block_count + 1]_vars

\* myalloc(1) has just returned: an ALLOCATED block of 8 bytes at the returned
\* address, split off a larger FREE block whose remainder follows it
C29_SplitAllocation ==
    /\ hret.op = "myalloc" /\ hret.val # NULL
    /\ LET b == BlockAt(mem, g_heap.blocks_head, hret.val)
       IN /\ b # NULL
          /\ mem[b].state = "ALLOCATED"
          /\ mem[b].size = ALIGN_UP(1, 8)
          /\ mem[b].next # NULL
          /\ mem[mem[b].next].state = "FREE"
          /\ mem[mem[b].next].start_addr = hret.val + ALIGN_UP(1, 8)

\* the sum of the sizes of the blocks of s that are in state st
RECURSIVE SumSizes(_, _, _)
SumSizes(m, s, st) ==
    IF s = <<>> THEN 0
    ELSE (IF m[Head(s)].state = st THEN m[Head(s)].size ELSE 0) + SumSizes(m, Tail(s), st)

\* C30: whenever no allocate or free is in progress, block_count is the number
\* of blocks reachable from the head, total_allocated is the sum of the sizes
\* of the ALLOCATED blocks, total_free the sum of the sizes of the FREE
\* blocks, and peak_allocated >= total_allocated.
C30_CountersMatchList ==
    Quiescent =>
        LET ch == Chain(mem, g_heap.blocks_head)
        IN /\ g_heap.block_count = Len(ch)
           /\ g_heap.total_allocated = SumSizes(mem, ch, "ALLOCATED")
           /\ g_heap.total_free = SumSizes(mem, ch, "FREE")
           /\ g_heap.peak_allocated >= g_heap.total_allocated

\* a myfree has just succeeded on a heap that was extended, and the list
\* holds ALLOCATED and FREE blocks, below an earlier peak
C30_AfterFreeOnExtendedHeap ==
    /\ Quiescent
    /\ hret.op = "myfree" /\ hret.val = 0
    /\ g_vm_mgr.region_count >= 2
    /\ g_heap.block_count >= 3
    /\ g_heap.peak_allocated > g_heap.total_allocated
    /\ \E b \in Range(Chain(mem, g_heap.blocks_head)) : mem[b].state = "ALLOCATED"

\* C28: after a successful heap_free the freed block's successor in the list
\* is not a FREE block that starts where it ends, its predecessor in the list
\* is not a FREE block that ends where it starts (each such neighbour has
\* been merged into it), and block_count has dropped by the number of blocks
\* the merges removed from the list.
C28_FreeMergesBothSides ==
    [][\A t \in HThreads :
         (/\ hpc[t] = "free_mark" /\ hpc'[t] = "idle"
          /\ hret'.op = "myfree" /\ hret'.val = 0)
         => LET ch == Chain(mem', g_heap'.blocks_head)
                i == CHOOSE j \in DOMAIN ch : mem_block_contains(mem', ch[j], mem[hblk[t]].start_addr)
            IN /\ \E j \in DOMAIN ch : mem_block_contains(mem', ch[j], mem[hblk[t]].start_addr)
               /\ mem'[ch[i]].state = "FREE"
               /\ i < Len(ch) =>
                     ~(/\ mem'[ch[i + 1]].state = "FREE"
                       /\ mem_block_is_adjacent(mem', ch[i], ch[i + 1]))
               /\ i > 1 =>
                     ~(/\ mem'[ch[i - 1]].state = "FREE"
                       /\ mem_block_is_adjacent(mem', ch[i - 1], ch[i]))
               /\ g_heap'.block_count
                    = g_heap.block_count - (Len(Chain(mem, g_heap.blocks_head)) - Len(ch))]_vars

\* C26: heap_find_free_block(k) changes no state and returns, among the FREE
\* blocks of size >= k: under FIRST_FIT the one at the lowest address; under
\* BEST_FIT one of minimal size, the earliest address among equals; under
\* WORST_FIT one of maximal size, the earliest address among equals; and no
\* block when there is none.
C26_FindFreeBlockResult ==
    [][hret'.op = "heap_find_free_block" =>
         /\ UNCHANGED <<mem, g_heap, g_vm_mgr, lock, hpc, hblk, allocs>>
         /\ LET k == hret'.arg
                r == hret'.val
                free == {b \in Range(Chain(mem, g_heap.blocks_head)) :
                            mem[b].state = "FREE" /\ mem[b].size >= k}
                earlier(b) == mem[r].start_addr <= mem[b].start_addr
            IN IF free = {} THEN r = NULL
               ELSE /\ r \in free
                    /\ g_heap.alloc_strategy = "FIRST_FIT" => \A b \in free : earlier(b)
                    /\ g_heap.alloc_strategy = "BEST_FIT" =>
                          \A b \in free : \/ mem[r].size < mem[b].size
                                          \/ mem[r].size = mem[b].size /\ earlier(b)
                    /\ g_heap.alloc_strategy = "WORST_FIT" =>
                          \A b \in free : \/ mem[r].size > mem[b].size
                                          \/ mem[r].size = mem[b].size /\ earlier(b)]_vars

\* a search under BEST_FIT or WORST_FIT has just returned a block while two
\* FREE blocks of that same size were in the list
C26_TieBetweenEqualBlocks ==
    /\ hret.op = "heap_find_free_block" /\ hret.val # NULL
    /\ g_heap.alloc_strategy \in {"BEST_FIT", "WORST_FIT"}
    /\ \E b \in Range(Chain(mem, g_heap.blocks_head)) :
          /\ b # hret.val
          /\ mem[b].state = "FREE"
          /\ mem[b].size = mem[hret.val].size

\* C21: no thread ever holds the pool state mutex and the queue mutex at the
\* same time: within every step of the worker loop, submit, destroy, create,
\* grow and shrink, and between steps, a thread holds at most one of them.
C21_OneMutexAtATime ==
    /\ pheld = {}
    /\ state_lock # NoThread => state_lock # qmutex

\* shrink has been through its section under the state lock and then its
\* broadcast under the queue mutex, and a trailing worker that has passed the
\* state lock at its loop head holds the queue mutex for its coming wait
C21_ShrinkBetweenSections ==
    /\ mpc = "s_join"
    /\ \E w \in Trailing(pool) : wpc[w] = "pop_block" /\ qmutex = w
    /\ state_lock = NoThread

\* C36: in every reachable heap state the block list is a well-formed
\* doubly-linked list: the head's prev is null and every block that has a
\* successor is the prev of that successor.
C36_ListWellLinked ==
    LET ch == Chain(mem, g_heap.blocks_head)
    IN /\ g_heap.blocks_head # NULL => mem[g_heap.blocks_head].prev = NULL
       /\ \A b \in Range(ch) : mem[b].next # NULL => mem[mem[b].next].prev = b

\* C40: while the allocator is initialised, total_allocated + total_free of
\* the heap equals the total length of the reservations the VM layer tracks
\* (its total_allocated counter, which is the sum of its regions' lengths).
C40_HeapBytesAreReservedBytes ==
    g_initialized =>
        /\ g_heap.total_allocated + g_heap.total_free = g_vm_mgr.total_allocated
        /\ g_vm_mgr.total_allocated = SumLen(g_vm_mgr.regions)
        /\ g_vm_mgr.region_count = Len(g_vm_mgr.regions)

\* a myalloc has just failed part-way through an extension: the new
\* reservation is in place as one whole FREE block, the split of it failed
C40_ExtensionKeptAfterFailure ==
    /\ g_initialized
    /\ hret.op = "myalloc" /\ hret.val = NULL
    /\ g_vm_mgr.region_count >= 2
    /\ \E b \in Range(Chain(mem, g_heap.blocks_head)) :
          /\ mem[b].state = "FREE"
          /\ mem[b].start_addr = g_vm_mgr.regions[1].start_addr
          /\ mem[b].size = g_vm_mgr.regions[1].length

\* the workers that have detached a task and have not yet re-acquired the
\* queue mutex after its function and cleanup
InFlight == {w \in Workers : wpc[w] \in {"run", "finish"}}

\* C31: in every reachable state of a live queue, active_tasks is the number
\* of workers between the detach of a task in task_queue_pop_and_execute and
\* the re-acquisition of the mutex after its function and cleanup; it is
\* never negative and is 0 when no worker is in that window.
C31_ActiveTasksCountsInFlight ==
    queue.alive =>
        /\ queue.active_tasks = Cardinality(InFlight)
        /\ queue.active_tasks >= 0
        /\ InFlight = {} => queue.active_tasks = 0

\* both workers are in the window, one running its task's function, the
\* other past function and cleanup and about to take the mutex again
C31_TwoInFlight ==
    /\ \E w \in Workers : wpc[w] = "run"
    /\ \E w \in Workers : wpc[w] = "finish"
    /\ queue.active_tasks = 2

\* C39: a thread blocked in task_queue_wait_empty on all_done is eventually
\* released (the queue is drained by consumers that call task_queue_pop and
\* stays empty with active_tasks == 0 once the producers have stopped).
C39_WaitEmptyReleased ==
    (mpc = "wa_wait") ~> (mpc = "waited")

C37_AcceptedTaskRunsOnce ==
    /\ \A id \in accepted : tasks[id].st = "freed" => tasks[id].nrun = 1
    /\ \A p \in Producers : ppc[p] = "ub" => ptask[p] = NULL

\* C35: a producer blocked in task_queue_push on the full bounded queue
\* eventually appends its task and returns, whatever the other producer
\* does, as long as the workers keep running and the functions return; every
\* task a submit created is then executed once and freed.
C35_BlockedPushReturns ==
    /\ \A p \in Producers : (ppc[p] \in {"push_block", "push_wait"}) ~> (ppc[p] = "idle")
    /\ \A id \in TaskIds :
          (tasks[id].st = "created") ~> (tasks[id].st = "freed" /\ tasks[id].nrun = 1)

\* C35, the case: both producers wait on not_full with the queue full
C35_BothProducersBlocked ==
    /\ \A p \in Producers : ppc[p] = "push_wait"
    /\ queue.max_count > 0
    /\ queue.count = queue.max_count

\* C38: whatever the interleaving of the first calls to myalloc, myfree and
\* allocator_init, the VM manager and the heap are built once: the step in
\* which allocator_init installs a heap is taken only on an allocator that is
\* not initialised and serves no allocation.
C38_HeapBuiltOnce ==
    [][\A t \in HThreads :
          (hpc[t] \in {"init", "ens_init"} /\ hpc'[t] = "idle") =>
              (~g_initialized /\ allocs = {})]_vars

\* C34: when a spawn fails during a grow, the workers this call had spawned
\* execute no task before they exit, the call returns -1 with num_threads as
\* it was, and the workers the pool had before keep running: while the
\* rollback joins, a worker leaves at the head of its loop only when its
\* should_exit flag was set.
C34_GrowRollback ==
    [][/\ mpc = "e_join" =>
             \A w \in Spawned(pool, wpc) : wtask'[w] = NULL /\ wpc'[w] \in {"loop", "exited"}
       /\ (mpc = "e_join" /\ mpc' = "idle") =>
             (pool'.num_threads = pool.num_threads /\ pev'.val = -1)
       /\ mpc = "e_join" =>
             \A w \in Workers :
                (wpc[w] = "loop" /\ wpc'[w] = "exited") => pool.should_exit[w]]_vars

\* C32: during a shrink a worker that has a task goes through the task's
\* function, its cleanup and active_tasks-- before it can leave, the steps of
\* the shrink leave the queue and the tasks as they are, and every queued
\* task is eventually executed once and freed by a worker that stays.
C32_ShrinkDropsNoTask ==
    /\ [][/\ \A w \in Workers :
                /\ (wpc[w] = "run" /\ wpc'[w] # "run") =>
                       (wpc'[w] = "finish" /\ tasks'[wtask[w]].st = "freed")
                /\ (wpc[w] = "finish" /\ wpc'[w] # "finish") =>
                       (wpc'[w] = "loop" /\ queue'.active_tasks = queue.active_tasks - 1)
                /\ (wpc[w] # "exited" /\ wpc'[w] = "exited") => wtask[w] = NULL
           /\ mpc' # mpc => (queue' = queue /\ tasks' = tasks)]_vars
    /\ \A id \in TaskIds :
          (tasks[id].st = "queued") ~> (tasks[id].st = "freed" /\ tasks[id].nrun = 1)

====
